---- MODULE Spec2Model ----
(***************************************************************************)
(* Model of the chat backend: the session store and run registry           *)
(* (services/session_service.py), the background executor                  *)
(* (services/rlm_service.py) and the SSE streaming loop                     *)
(* (api/routes/chat.py).                                                    *)
(*                                                                         *)
(* Python str values are sequences of tokens: user messages are sequences  *)
(* of one-character tokens, fixed literals of the code are one-token       *)
(* sequences.  Python None in an Optional[str] field is the value None.    *)
(***************************************************************************)
EXTENDS Integers, Sequences, FiniteSets, TLC

\* ------------------------------------------------------------------ bounds
\* number of polling iterations of one stream (6000 in chat.py:88, scaled)
max_retries == 3
\* idle polls between two heartbeats (30 in chat.py:89, scaled)
heartbeat_interval == 2
\* progress events the reasoning engine emits before its outcome
MaxProgress == 1

\* ------------------------------------------------------------ value spaces
None == <<"<None>">>

\* a reading of datetime.utcnow(): the time to the second and the microsecond
Datetime(second, microsecond) == <<"datetime", second, microsecond>>

\* isinstance(x, datetime), for x a datetime, a str or None
isinstance_datetime(x) == x[1] = "datetime"

\* datetime.isoformat(): "YYYY-MM-DDTHH:MM:SS.ffffff", without the fraction
\* when microsecond is 0
isoformat(dt) == IF dt[3] = "000000" THEN <<dt[2]>> ELSE <<dt[2], ".", dt[3]>>

\* mutant: the fraction of the second is not read
fromisoformat_whole_seconds(s) == Datetime(s[1], "000000")

\* datetime.fromisoformat
fromisoformat(s) == Datetime(s[1], IF Len(s) = 3 THEN s[3] ELSE "000000")

\* datetime.utcnow() where the model does not let time pass
UtcNow == Datetime("2026-11-04T09:00:00", "123456")

\* uuid4 values of create_session and create_run; a run_id of 0 is no run_id
SessionIds == {"s1"}
RunIds == {1}

\* clients that open an SSE stream
StreamIds == {"a", "b"}

\* config.py AVAILABLE_MODELS, one model of each provider
AVAILABLE_MODELS == {[id |-> "claude-opus-4-5-20251101", provider |-> "anthropic"],
                     [id |-> "gpt-5-mini", provider |-> "openai"]}

ModelIds == {m.id : m \in AVAILABLE_MODELS}

\* message bodies a client submits
Messages == {<<"h", "i">>, <<" ">>}

\* response of the reasoning engine
Responses == {<<"o", "k">>}

\* str(e) of an exception raised by the reasoning engine or by persistence
WorkerFailures == {<<"engine failure">>}

CancelledByUser == <<"Cancelled by user">>
OpenAIKeyMissing == <<"OpenAI API key not configured. Set OPENAI_API_KEY in .env">>
AnthropicKeyMissing == <<"Anthropic API key not configured. Set ANTHROPIC_API_KEY in .env">>

\* ------------------------------------------------------------------ config
get_model_provider(model_id) ==
    IF \E m \in AVAILABLE_MODELS : m.id = model_id
    THEN (CHOOSE m \in AVAILABLE_MODELS : m.id = model_id).provider
    ELSE "anthropic"

\* ------------------------------------------------------------- ChatSession
TitleCut == 50
TitleMin == 20

RECURSIVE lstrip(_)
lstrip(s) == IF s # <<>> /\ Head(s) = " " THEN lstrip(Tail(s)) ELSE s

RECURSIVE rstrip(_)
rstrip(s) ==
    IF s # <<>> /\ s[Len(s)] = " " THEN rstrip(SubSeq(s, 1, Len(s) - 1)) ELSE s

strip(s) == rstrip(lstrip(s))

\* s[:n]
Take(s, n) == SubSeq(s, 1, IF Len(s) < n THEN Len(s) ELSE n)

\* mutant: the text is cut before its first space
split_head(s) ==
    IF \E i \in 1..Len(s) : s[i] = " "
    THEN SubSeq(s, 1, (CHOOSE i \in 1..Len(s) :
                          s[i] = " " /\ \A j \in 1..(i - 1) : s[j] # " ") - 1)
    ELSE s

\* s.rsplit(" ", 1)[0]
rsplit_head(s) ==
    IF \E i \in 1..Len(s) : s[i] = " "
    THEN LET last == CHOOSE i \in 1..Len(s) :
                        /\ s[i] = " "
                        /\ \A j \in (i + 1)..Len(s) : s[j] # " "
         IN  SubSeq(s, 1, last - 1)
    ELSE s

\* mutant: every title gets the ellipsis
generate_title_marks_all(content) == strip(content) \o <<".", ".", ".">>

generate_title(content) ==
    LET title == strip(content) IN
    IF Len(title) > TitleCut
    THEN LET cut == rsplit_head(Take(title, TitleCut)) IN
         (IF Len(cut) < TitleMin THEN Take(content, TitleCut) ELSE cut) \o <<".", ".", ".">>
    ELSE title

NewSession(session_id, model_id) ==
    [session_id |-> session_id,
     model_id |-> model_id,
     document_ids |-> <<>>,
     title |-> None,
     status |-> "active",
     created_at |-> UtcNow,
     ended_at |-> None,
     messages |-> <<>>,
     progress_events |-> <<>>,
     rlm_instance |-> None]

\* mutant: the run_id of the message is dropped
add_message_no_run_id(session, role, content, run_id) ==
    [session EXCEPT
        !.messages = Append(@, [role |-> role, content |-> content, timestamp |-> UtcNow,
                                run_id |-> 0]),
        !.title = IF @ = None /\ role = "user" THEN generate_title(content) ELSE @]

\* ChatSession.add_message: a message without run_id carries run_id 0
add_message(session, role, content, run_id) ==
    [session EXCEPT
        !.messages = Append(@, [role |-> role, content |-> content, timestamp |-> UtcNow,
                                run_id |-> run_id]),
        !.title = IF @ = None /\ role = "user" THEN generate_title(content) ELSE @]

\* ChatSession.add_progress_events: progress_events[run_id] = events
add_progress_events(session, run_id, events) ==
    [session EXCEPT
        !.progress_events =
            [k \in (DOMAIN @) \cup {run_id} |-> IF k = run_id THEN events ELSE @[k]]]

\* to_persist_dict: {**msg, "timestamp": msg["timestamp"].isoformat() if
\* isinstance(msg["timestamp"], datetime) else msg["timestamp"]}
persist_message(msg) ==
    [msg EXCEPT !.timestamp = IF isinstance_datetime(@) THEN isoformat(@) ELSE @]

\* ChatSession.to_persist_dict
to_persist_dict(session) ==
    [session_id |-> session.session_id,
     model_id |-> session.model_id,
     document_ids |-> session.document_ids,
     title |-> session.title,
     status |-> session.status,
     created_at |-> isoformat(session.created_at),
     ended_at |-> IF session.ended_at # None THEN isoformat(session.ended_at) ELSE None,
     messages |-> [i \in 1..Len(session.messages) |-> persist_message(session.messages[i])],
     progress_events |-> session.progress_events]

\* data.get(key, default)
Get(data, key, default) == IF key \in DOMAIN data THEN data[key] ELSE default

\* from_persist_dict: {**msg, "timestamp": datetime.fromisoformat(msg["timestamp"])
\* if isinstance(msg["timestamp"], str) else msg["timestamp"]}
load_message(msg) ==
    [msg EXCEPT !.timestamp = IF ~isinstance_datetime(@) THEN fromisoformat(@) ELSE @]

\* ChatSession.from_persist_dict: the object built from a stored record; its
\* rlm_instance is None
from_persist_dict(data) ==
    [session_id |-> data.session_id,
     model_id |-> data.model_id,
     document_ids |-> data.document_ids,
     title |-> Get(data, "title", None),
     status |-> Get(data, "status", "ended"),
     created_at |-> IF ~isinstance_datetime(data.created_at)
                    THEN fromisoformat(data.created_at) ELSE data.created_at,
     ended_at |-> IF Get(data, "ended_at", None) # None
                  THEN fromisoformat(data.ended_at) ELSE None,
     messages |-> LET stored == Get(data, "messages", <<>>) IN
                  [i \in 1..Len(stored) |-> load_message(stored[i])],
     progress_events |-> Get(data, "progress_events", <<>>),
     rlm_instance |-> None]

\* ---------------------------------------------------------------- RunState
NewRun(run_id, session_id, message) ==
    [run_id |-> run_id,
     session_id |-> session_id,
     message |-> message,
     completed |-> FALSE,
     error |-> None,
     result |-> None,
     events |-> <<>>]

\* mutant: the event is inserted at the head of the list
add_event_front(run, event) == [run EXCEPT !.events = <<event>> \o @]

add_event(run, event) == [run EXCEPT !.events = Append(@, event)]

\* mutant: the start index is ignored and the whole list is returned
get_events_all(run, start_index) == run.events

\* self._events[start_index:].copy()
get_events(run, start_index) == SubSeq(run.events, start_index + 1, Len(run.events))

\* mutant: the count is the index of the last event
get_event_count_last_index(run) == Len(run.events) - 1

get_event_count(run) == Len(run.events)

\* a progress event, with "timestamp": datetime.utcnow().isoformat() of its
\* maker; message and code are None where the kind has none
Event(type, session_id, run_id, message, code) ==
    [type |-> type, timestamp |-> isoformat(UtcNow), session_id |-> session_id,
     run_id |-> run_id, message |-> message, code |-> code]

\* the event of a maker whose datetime.utcnow() returned now
EventAt(type, session_id, run_id, message, code, now) ==
    [Event(type, session_id, run_id, message, code) EXCEPT !.timestamp = isoformat(now)]

IsTerminal(event) == event.type \in {"final_answer", "error"}


\* ------------------------------------------------------------------- state
VARIABLES
    settings,        \* settings.validate_api_key(provider), per provider
    sessions,        \* SessionService._sessions: the session ids in the map
    objs,            \* the ChatSession objects, by session_id
    disk,            \* SESSIONS_DIR: persisted dict by session_id
    runs,            \* SessionService._runs: RunState by run_id
    appended,        \* history: the add_event calls on each run, in call order
    threads,         \* run_thread of each run: position and locals
    active_threads,  \* RLMService._active_threads
    cancels,         \* cancel_run requests: position and return value
    streams,         \* event_generator of each open stream: position and locals
    handler          \* the session request the event loop serves, or served last
                     \* (data: the dict its _persist_session call is writing)

vars == <<settings, sessions, objs, disk, runs, appended, threads, active_threads,
          cancels, streams, handler>>

\* no session request has been served
NoRequest ==
    [op |-> "none", session_id |-> "none", pc |-> "returned", ret |-> FALSE, data |-> None]

Providers == {"anthropic", "openai"}

Init ==
    /\ settings \in {[provider \in Providers |-> ok] : ok \in BOOLEAN}
    /\ sessions = {}
    /\ objs = <<>>
    /\ disk = <<>>
    /\ runs = <<>>
    /\ appended = <<>>
    /\ threads = <<>>
    /\ active_threads = {}
    /\ cancels = <<>>
    /\ streams = <<>>
    /\ handler = NoRequest

\* ------------------------------------------------------------ SessionStore
\* SessionService._persist_session
persist_session(d, session) ==
    [k \in (DOMAIN d) \cup {session.session_id} |->
        IF k = session.session_id THEN to_persist_dict(session) ELSE d[k]]

\* A file of SESSIONS_DIR holds the JSON text of a persisted dict, or no text
\* yet (opened with mode "w", nothing flushed), or the bytes of two dumps that
\* were written over each other.
EmptyFile == [bytes |-> "empty"]
Garbled == [bytes |-> "garbled"]

\* _persist_session: open(file_path, "w") creates the file or truncates it
open_w(d, session_id) ==
    [k \in (DOMAIN d) \cup {session_id} |-> IF k = session_id THEN EmptyFile ELSE d[k]]

\* _persist_session: the text json.dump leaves in the file when the with block
\* closes it.  The writer writes from offset 0: onto an empty file the text is
\* its own; onto text another writer flushed since the truncation it is its
\* own when that covers the other text and a mix of the two when it is shorter.
json_dump(d, session_id, data) ==
    IF session_id \notin DOMAIN d THEN {d}
    ELSE {[d EXCEPT ![session_id] = text] :
             text \in IF d[session_id] \in {EmptyFile, data} THEN {data}
                      ELSE {data, Garbled}}

\* json.load of _load_persisted_sessions raises on such a file
Parsable(file) == file \notin {EmptyFile, Garbled}

\* mutant: the first file that fails to load ends the whole load
load_persisted_sessions_aborts(d) ==
    IF \A f \in DOMAIN d : Parsable(d[f])
    THEN [k \in DOMAIN d |-> from_persist_dict(d[k])]
    ELSE <<>>

\* SessionService._load_persisted_sessions: the sessions a starting process
\* gets from SESSIONS_DIR; a file that fails to load is skipped
load_persisted_sessions(d) ==
    [k \in {f \in DOMAIN d : Parsable(d[f])} |-> from_persist_dict(d[k])]

\* mutant: the file of the session is not removed
delete_persisted_session_keeps(d, session_id) == d

\* SessionService._delete_persisted_session
delete_persisted_session(d, session_id) ==
    [k \in (DOMAIN d) \ {session_id} |-> d[k]]

\* POST /sessions -> SessionService.create_session
CreateSession(session_id, model_id) ==
    /\ session_id \notin DOMAIN objs
    /\ model_id \in ModelIds
    /\ objs' = objs @@ (session_id :> NewSession(session_id, model_id))
    /\ sessions' = sessions \cup {session_id}
    /\ disk' = persist_session(disk, NewSession(session_id, model_id))
    /\ UNCHANGED <<handler, settings, runs, appended, threads, active_threads, cancels, streams>>

\* titles a client sets with PATCH /sessions/{session_id}/title
Titles == {<<"T">>}

Returned(op, session_id) ==
    [op |-> op, session_id |-> session_id, pc |-> "returned", ret |-> TRUE, data |-> None]

\* rlm_instance.close() and session.rlm_instance = None, when there is a handle
Teardown(session) == [session EXCEPT !.rlm_instance = None]

\* POST /sessions/{session_id}/end -> SessionService.end_session, up to the
\* test len(session.messages) == 0
EndSession(session_id) ==
    /\ handler.pc = "returned"
    /\ session_id \in sessions
    /\ objs' = [objs EXCEPT ![session_id] = Teardown(@)]
    /\ handler' = [op |-> "end_session", session_id |-> session_id,
                   pc |-> IF Len(objs[session_id].messages) = 0 THEN "remove" ELSE "mark",
                   ret |-> FALSE, data |-> None]
    /\ UNCHANGED <<settings, sessions, disk, runs, appended, threads, active_threads,
                   cancels, streams>>

\* end_session of a session without messages: del self._sessions[session_id];
\* self._delete_persisted_session(session_id); return True
EndSessionRemove ==
    /\ handler.op = "end_session"
    /\ handler.pc = "remove"
    /\ sessions' = sessions \ {handler.session_id}
    /\ disk' = delete_persisted_session(disk, handler.session_id)
    /\ handler' = Returned("end_session", handler.session_id)
    /\ UNCHANGED <<settings, objs, runs, appended, threads, active_threads,
                   cancels, streams>>

\* end_session of a session with messages: status, ended_at,
\* self._persist_session(session); return True
EndSessionMark ==
    /\ handler.op = "end_session"
    /\ handler.pc = "mark"
    /\ objs' = [objs EXCEPT ![handler.session_id].status = "ended",
                            ![handler.session_id].ended_at = UtcNow]
    /\ disk' = persist_session(disk, objs'[handler.session_id])
    /\ handler' = Returned("end_session", handler.session_id)
    /\ UNCHANGED <<settings, sessions, runs, appended, threads, active_threads,
                   cancels, streams>>

\* DELETE /sessions/{session_id} -> SessionService.delete_session; the handle
\* is closed but stays in the object
DeleteSession(session_id) ==
    /\ handler.pc = "returned"
    /\ session_id \in sessions
    /\ sessions' = sessions \ {session_id}
    /\ disk' = delete_persisted_session(disk, session_id)
    /\ handler' = Returned("delete_session", session_id)
    /\ UNCHANGED <<settings, objs, runs, appended, threads, active_threads,
                   cancels, streams>>

\* PATCH /sessions/{session_id}/title -> SessionService.update_session_title
UpdateSessionTitle(session_id, title) ==
    /\ handler.pc = "returned"
    /\ session_id \in sessions
    /\ objs' = [objs EXCEPT ![session_id].title = title]
    /\ disk' = persist_session(disk, objs'[session_id])
    /\ handler' = Returned("update_session_title", session_id)
    /\ UNCHANGED <<settings, sessions, runs, appended, threads, active_threads,
                   cancels, streams>>

\* mutant: changing the model makes the session active again
UpdateSessionModel_reactivates(session_id, model_id) ==
    /\ handler.pc = "returned"
    /\ session_id \in sessions
    /\ model_id \in ModelIds
    /\ objs' = [objs EXCEPT ![session_id] =
                   Teardown([@ EXCEPT !.model_id = model_id, !.status = "active"])]
    /\ disk' = persist_session(disk, objs'[session_id])
    /\ handler' = Returned("update_session_model", session_id)
    /\ UNCHANGED <<settings, sessions, runs, appended, threads, active_threads,
                   cancels, streams>>

\* PATCH /sessions/{session_id}/model -> SessionService.update_session_model
UpdateSessionModel(session_id, model_id) ==
    /\ handler.pc = "returned"
    /\ session_id \in sessions
    /\ model_id \in ModelIds
    /\ objs' = [objs EXCEPT ![session_id] = Teardown([@ EXCEPT !.model_id = model_id])]
    /\ disk' = persist_session(disk, objs'[session_id])
    /\ handler' = Returned("update_session_model", session_id)
    /\ UNCHANGED <<settings, sessions, runs, appended, threads, active_threads,
                   cancels, streams>>

\* update_session_title step by step: session.title = title and, in
\* _persist_session, open(file_path, "w")
UpdateSessionTitleOpen(session_id, title) ==
    /\ handler.pc = "returned"
    /\ session_id \in sessions
    /\ objs' = [objs EXCEPT ![session_id].title = title]
    /\ disk' = open_w(disk, session_id)
    /\ handler' = [op |-> "update_session_title", session_id |-> session_id,
                   pc |-> "to_persist_dict", ret |-> FALSE, data |-> None]
    /\ UNCHANGED <<settings, sessions, runs, appended, threads, active_threads,
                   cancels, streams>>

\* _persist_session of the request: session.to_persist_dict(), the argument of
\* json.dump
HandlerToPersistDict ==
    /\ handler.pc = "to_persist_dict"
    /\ handler' = [handler EXCEPT !.pc = "json_dump",
                                  !.data = to_persist_dict(objs[handler.session_id])]
    /\ UNCHANGED <<settings, sessions, objs, disk, runs, appended, threads,
                   active_threads, cancels, streams>>

\* _persist_session of the request: json.dump writes, the file is closed and
\* the request returns True
HandlerJsonDump ==
    /\ handler.pc = "json_dump"
    /\ disk' \in json_dump(disk, handler.session_id, handler.data)
    /\ handler' = Returned(handler.op, handler.session_id)
    /\ UNCHANGED <<settings, sessions, objs, runs, appended, threads, active_threads,
                   cancels, streams>>

\* ------------------------------------------------------------- RunRegistry
\* mutant: complete_run records the result but not the error
complete_run_drops_error(rs, run_id, result, error) ==
    IF run_id \in DOMAIN rs
    THEN [rs EXCEPT ![run_id].completed = TRUE, ![run_id].result = result]
    ELSE rs

\* mutant: a second call marks the run as not completed
complete_run_toggles(rs, run_id, result, error) ==
    IF run_id \in DOMAIN rs
    THEN [rs EXCEPT ![run_id].completed = ~@,
                    ![run_id].result = result,
                    ![run_id].error = error]
    ELSE rs

\* SessionService.complete_run
complete_run(rs, run_id, result, error) ==
    IF run_id \in DOMAIN rs
    THEN [rs EXCEPT ![run_id].completed = TRUE,
                    ![run_id].result = result,
                    ![run_id].error = error]
    ELSE rs

\* the callback emit_event of run_inference, and run.add_event in run_thread
emit_event(rs, run_id, event) == [rs EXCEPT ![run_id] = add_event(@, event)]

Record(run_id, event) == [appended EXCEPT ![run_id] = Append(@, event)]

\* POST /chat/{session_id} -> submit_message
SubmitMessage(session_id, message) ==
    /\ session_id \in sessions
    /\ strip(message) # <<>>
    /\ \E run_id \in RunIds :
        /\ run_id \notin DOMAIN runs
        /\ \A other \in RunIds : other \notin DOMAIN runs => run_id <= other
        /\ runs' = runs @@ (run_id :> NewRun(run_id, session_id, message))
        /\ appended' = appended @@ (run_id :> <<>>)
        /\ threads' = threads @@
              (run_id :> [pc |-> "validate", exc |-> None, result |-> None,
                          progress |-> 0, final |-> FALSE,
                          provider |-> None, rlm |-> None, data |-> None])
        /\ active_threads' = active_threads \cup {run_id}
    /\ UNCHANGED <<handler, settings, sessions, objs, disk, cancels, streams>>

\* ------------------------------------------------------ BackgroundExecutor
SessionOf(run_id) == runs[run_id].session_id

At(run_id, pc) == run_id \in DOMAIN threads /\ threads[run_id].pc = pc

Goto(run_id, pc) == threads' = [threads EXCEPT ![run_id].pc = pc]

Raise(run_id, e) == threads' = [threads EXCEPT ![run_id].pc = "except_event", ![run_id].exc = e]

\* _execute_inference: provider lookup and validate_api_key
WorkerValidate(run_id) ==
    /\ At(run_id, "validate")
    /\ LET provider == get_model_provider(objs[SessionOf(run_id)].model_id) IN
       IF ~settings[provider]
       THEN Raise(run_id, IF provider = "openai" THEN OpenAIKeyMissing
                          ELSE AnthropicKeyMissing)
       ELSE threads' = [threads EXCEPT ![run_id].pc = "session_start",
                                       ![run_id].provider = <<provider>>]
    /\ UNCHANGED <<handler, settings, sessions, objs, disk, runs, appended, active_threads,
                   cancels, streams>>

WorkerEmit(run_id, event, pc) ==
    /\ runs' = emit_event(runs, run_id, event)
    /\ appended' = Record(run_id, event)
    /\ Goto(run_id, pc)
    /\ UNCHANGED <<handler, settings, sessions, objs, disk, active_threads, cancels, streams>>

\* _execute_inference: emit_callback(init_event)
WorkerSessionStart(run_id) ==
    /\ At(run_id, "session_start")
    /\ WorkerEmit(run_id, Event("session_start", SessionOf(run_id), run_id, None, None),
                  "create_rlm")

\* the handle RLM(backend=..., backend_kwargs={"model_name": ...}, persistent=True)
RLM(backend, model_name) == <<"RLM">> \o backend \o <<model_name>>

\* the model a handle was created for
ModelOf(rlm) == rlm[3]

AttributeError == <<"'NoneType' object has no attribute 'logger'">>

\* _execute_inference: if session.rlm_instance is None: the backend follows the
\* provider found before, model_name is session.model_id as it is now; else:
\* rlm = session.rlm_instance, a second read, and rlm.logger = logger
WorkerCreateRLM(run_id) ==
    /\ \/ /\ At(run_id, "create_rlm")
          /\ threads' = IF objs[SessionOf(run_id)].rlm_instance = None
                        THEN [threads EXCEPT
                                 ![run_id].pc = "attach_rlm",
                                 ![run_id].rlm = RLM(threads[run_id].provider,
                                                     objs[SessionOf(run_id)].model_id)]
                        ELSE [threads EXCEPT ![run_id].pc = "reuse_rlm"]
       \/ /\ At(run_id, "reuse_rlm")
          /\ IF objs[SessionOf(run_id)].rlm_instance = None
             THEN Raise(run_id, AttributeError)
             ELSE threads' = [threads EXCEPT
                                 ![run_id].pc = "completion",
                                 ![run_id].rlm = objs[SessionOf(run_id)].rlm_instance]
    /\ UNCHANGED <<handler, settings, sessions, objs, disk, runs, appended, active_threads,
                   cancels, streams>>

\* _execute_inference: session.rlm_instance = rlm
WorkerAttachRLM(run_id) ==
    /\ At(run_id, "attach_rlm")
    /\ objs' = [objs EXCEPT ![SessionOf(run_id)].rlm_instance = threads[run_id].rlm]
    /\ Goto(run_id, "completion")
    /\ UNCHANGED <<handler, settings, sessions, disk, runs, appended, active_threads,
                   cancels, streams>>

\* rlm.completion: the printer emits an iteration_start event
WorkerProgress(run_id) ==
    /\ At(run_id, "completion")
    /\ ~threads[run_id].final
    /\ threads[run_id].progress < MaxProgress
    /\ runs' = emit_event(runs, run_id,
                  Event("iteration_start", SessionOf(run_id), run_id, None, None))
    /\ appended' = Record(run_id,
                  Event("iteration_start", SessionOf(run_id), run_id, None, None))
    /\ threads' = [threads EXCEPT ![run_id].progress = @ + 1]
    /\ UNCHANGED <<handler, settings, sessions, objs, disk, active_threads, cancels, streams>>

\* rlm.completion: the printer emits an iteration_start event made when the
\* clock of the worker read now
WorkerProgressAt(run_id, now) ==
    /\ At(run_id, "completion")
    /\ ~threads[run_id].final
    /\ threads[run_id].progress < MaxProgress
    /\ runs' = emit_event(runs, run_id,
                  EventAt("iteration_start", SessionOf(run_id), run_id, None, None, now))
    /\ appended' = Record(run_id,
                  EventAt("iteration_start", SessionOf(run_id), run_id, None, None, now))
    /\ threads' = [threads EXCEPT ![run_id].progress = @ + 1]
    /\ UNCHANGED <<handler, settings, sessions, objs, disk, active_threads, cancels, streams>>

\* rlm.completion: WebProgressLogger.log emits the final_answer event
WorkerFinalAnswer(run_id) ==
    /\ At(run_id, "completion")
    /\ ~threads[run_id].final
    /\ runs' = emit_event(runs, run_id,
                  Event("final_answer", SessionOf(run_id), run_id, None, None))
    /\ appended' = Record(run_id,
                  Event("final_answer", SessionOf(run_id), run_id, None, None))
    /\ threads' = [threads EXCEPT ![run_id].final = TRUE]
    /\ UNCHANGED <<handler, settings, sessions, objs, disk, active_threads, cancels, streams>>

\* rlm.completion returns its RLMChatCompletion
WorkerReturn(run_id, response) ==
    /\ At(run_id, "completion")
    /\ threads' = [threads EXCEPT ![run_id].pc = "complete", ![run_id].result = response]
    /\ UNCHANGED <<handler, settings, sessions, objs, disk, runs, appended, active_threads,
                   cancels, streams>>

\* rlm.completion raises
WorkerRaise(run_id, e) ==
    /\ At(run_id, "completion")
    /\ Raise(run_id, e)
    /\ UNCHANGED <<handler, settings, sessions, objs, disk, runs, appended, active_threads,
                   cancels, streams>>

\* _execute_inference: session_service.complete_run(run.run_id, result=result.response)
WorkerComplete(run_id) ==
    /\ At(run_id, "complete")
    /\ runs' = complete_run(runs, run_id, threads[run_id].result, None)
    /\ Goto(run_id, "add_user")
    /\ UNCHANGED <<handler, settings, sessions, objs, disk, appended, active_threads,
                   cancels, streams>>

\* _execute_inference: session.add_message("user", message)
WorkerAddUser(run_id) ==
    /\ At(run_id, "add_user")
    /\ objs' = [objs EXCEPT ![SessionOf(run_id)] =
                   add_message(@, "user", runs[run_id].message, 0)]
    /\ Goto(run_id, "add_assistant")
    /\ UNCHANGED <<handler, settings, sessions, disk, runs, appended, active_threads,
                   cancels, streams>>

\* mutant: a title is derived from every user message
WorkerAppendUser_always_derives(run_id) ==
    /\ At(run_id, "add_user")
    /\ objs' = [objs EXCEPT ![SessionOf(run_id)].messages =
                   Append(@, [role |-> "user", content |-> runs[run_id].message,
                              timestamp |-> UtcNow, run_id |-> 0])]
    /\ Goto(run_id, "generate_title")
    /\ UNCHANGED <<handler, settings, sessions, disk, runs, appended, active_threads,
                   cancels, streams>>

\* add_message("user", message) step by step: the message is appended and
\* self.title is None and role == "user" is tested
WorkerAppendUser(run_id) ==
    /\ At(run_id, "add_user")
    /\ objs' = [objs EXCEPT ![SessionOf(run_id)].messages =
                   Append(@, [role |-> "user", content |-> runs[run_id].message,
                              timestamp |-> UtcNow, run_id |-> 0])]
    /\ Goto(run_id, IF objs[SessionOf(run_id)].title = None THEN "generate_title"
                    ELSE "add_assistant")
    /\ UNCHANGED <<handler, settings, sessions, disk, runs, appended, active_threads,
                   cancels, streams>>

\* add_message: self.title = self._generate_title(content)
WorkerSetTitle(run_id) ==
    /\ At(run_id, "generate_title")
    /\ objs' = [objs EXCEPT ![SessionOf(run_id)].title = generate_title(runs[run_id].message)]
    /\ Goto(run_id, "add_assistant")
    /\ UNCHANGED <<handler, settings, sessions, disk, runs, appended, active_threads,
                   cancels, streams>>

\* _execute_inference: session.add_message("assistant", result.response, run_id=run.run_id)
WorkerAddAssistant(run_id) ==
    /\ At(run_id, "add_assistant")
    /\ objs' = [objs EXCEPT ![SessionOf(run_id)] =
                   add_message(@, "assistant", threads[run_id].result, run_id)]
    /\ Goto(run_id, "save_messages")
    /\ UNCHANGED <<handler, settings, sessions, disk, runs, appended, active_threads,
                   cancels, streams>>

\* _execute_inference: session_service.save_session after the messages:
\* session = self._sessions.get(session_id); if session
WorkerSaveMessages(run_id) ==
    /\ At(run_id, "save_messages")
    /\ Goto(run_id, IF SessionOf(run_id) \in sessions THEN "persist_messages" ELSE "usage")
    /\ UNCHANGED <<handler, settings, sessions, objs, disk, runs, appended, active_threads,
                   cancels, streams>>

\* save_session: self._persist_session(session); writing the file can fail
WorkerPersistMessages(run_id) ==
    /\ At(run_id, "persist_messages")
    /\ \/ /\ disk' = persist_session(disk, objs[SessionOf(run_id)])
          /\ Goto(run_id, "usage")
       \/ /\ \E e \in WorkerFailures : Raise(run_id, e)
          /\ UNCHANGED disk
    /\ UNCHANGED <<handler, settings, sessions, objs, runs, appended, active_threads,
                   cancels, streams>>

\* save_session step by step, for both saves of _execute_inference:
\* _persist_session opens the file with mode "w", which can fail
WorkerOpen(run_id) ==
    /\ At(run_id, "persist_messages") \/ At(run_id, "persist_events")
    /\ \/ /\ disk' = open_w(disk, SessionOf(run_id))
          /\ Goto(run_id, IF At(run_id, "persist_messages") THEN "dict_messages"
                          ELSE "dict_events")
       \/ /\ \E e \in WorkerFailures : Raise(run_id, e)
          /\ UNCHANGED disk
    /\ UNCHANGED <<handler, settings, sessions, objs, runs, appended, active_threads,
                   cancels, streams>>

\* _persist_session: session.to_persist_dict(), the argument of json.dump
WorkerToPersistDict(run_id) ==
    /\ At(run_id, "dict_messages") \/ At(run_id, "dict_events")
    /\ threads' = [threads EXCEPT
                      ![run_id].pc = IF At(run_id, "dict_messages") THEN "dump_messages"
                                     ELSE "dump_events",
                      ![run_id].data = to_persist_dict(objs[SessionOf(run_id)])]
    /\ UNCHANGED <<handler, settings, sessions, objs, disk, runs, appended, active_threads,
                   cancels, streams>>

\* _persist_session: json.dump writes and the file is closed
WorkerJsonDump(run_id) ==
    /\ At(run_id, "dump_messages") \/ At(run_id, "dump_events")
    /\ disk' \in json_dump(disk, SessionOf(run_id), threads[run_id].data)
    /\ threads' = [threads EXCEPT
                      ![run_id].pc = IF At(run_id, "dump_messages") THEN "usage"
                                     ELSE "finally",
                      ![run_id].data = None]
    /\ UNCHANGED <<handler, settings, sessions, objs, runs, appended, active_threads,
                   cancels, streams>>

\* _execute_inference: emit_callback(usage_event)
WorkerUsage(run_id) ==
    /\ At(run_id, "usage")
    /\ WorkerEmit(run_id, Event("usage_summary", SessionOf(run_id), run_id, None, None),
                  "archive")

\* _execute_inference: all_events = run.get_events(); all_events.append(usage_event);
\* session.add_progress_events(run.run_id, all_events)
WorkerArchive(run_id) ==
    /\ At(run_id, "archive")
    /\ objs' = [objs EXCEPT ![SessionOf(run_id)] =
                   add_progress_events(@, run_id,
                       Append(get_events(runs[run_id], 0),
                              Event("usage_summary", SessionOf(run_id), run_id, None, None)))]
    /\ Goto(run_id, "save_events")
    /\ UNCHANGED <<handler, settings, sessions, disk, runs, appended, active_threads,
                   cancels, streams>>

\* _execute_inference: the last session_service.save_session:
\* session = self._sessions.get(session_id); if session
WorkerSaveEvents(run_id) ==
    /\ At(run_id, "save_events")
    /\ Goto(run_id, IF SessionOf(run_id) \in sessions THEN "persist_events" ELSE "finally")
    /\ UNCHANGED <<handler, settings, sessions, objs, disk, runs, appended, active_threads,
                   cancels, streams>>

\* save_session: self._persist_session(session); writing the file can fail
WorkerPersistEvents(run_id) ==
    /\ At(run_id, "persist_events")
    /\ \/ /\ disk' = persist_session(disk, objs[SessionOf(run_id)])
          /\ Goto(run_id, "finally")
       \/ /\ \E e \in WorkerFailures : Raise(run_id, e)
          /\ UNCHANGED disk
    /\ UNCHANGED <<handler, settings, sessions, objs, runs, appended, active_threads,
                   cancels, streams>>

\* run_thread, except Exception: run.add_event(error_event)
WorkerExceptEvent(run_id) ==
    /\ At(run_id, "except_event")
    /\ WorkerEmit(run_id,
                  Event("error", SessionOf(run_id), run_id, threads[run_id].exc,
                        "INFERENCE_ERROR"),
                  "except_complete")

\* run_thread, except Exception: session_service.complete_run(run.run_id, error=str(e))
WorkerExceptComplete(run_id) ==
    /\ At(run_id, "except_complete")
    /\ runs' = complete_run(runs, run_id, None, threads[run_id].exc)
    /\ Goto(run_id, "finally")
    /\ UNCHANGED <<handler, settings, sessions, objs, disk, appended, active_threads,
                   cancels, streams>>

\* run_thread, finally: del self._active_threads[run.run_id]
WorkerFinally(run_id) ==
    /\ At(run_id, "finally")
    /\ active_threads' = active_threads \ {run_id}
    /\ Goto(run_id, "finished")
    /\ UNCHANGED <<handler, settings, sessions, objs, disk, runs, appended, cancels, streams>>

\* -------------------------------------------------------------- cancel_run
\* The record of a cancel request keeps the session_id of its URL.
\* POST /chat/{session_id}/cancel/{run_id} -> RLMService.cancel_run:
\* run = get_run(run_id); if run and not run.completed
CancelCheck(session_id, run_id) ==
    /\ session_id \in sessions
    /\ run_id \in DOMAIN runs
    /\ run_id \notin DOMAIN cancels
    /\ cancels' = cancels @@
          (run_id :> [session_id |-> session_id,
                      pc |-> IF ~runs[run_id].completed THEN "complete" ELSE "returned",
                      ret |-> FALSE])
    /\ UNCHANGED <<handler, settings, sessions, objs, disk, runs, appended, threads,
                   active_threads, streams>>

\* mutant: cancelling a run empties its log
CancelComplete_clears_log(run_id) ==
    /\ run_id \in DOMAIN cancels
    /\ cancels[run_id].pc = "complete"
    /\ runs' = [complete_run(runs, run_id, None, CancelledByUser) EXCEPT
                   ![run_id].events = <<>>]
    /\ cancels' = [cancels EXCEPT ![run_id].pc = "returned", ![run_id].ret = TRUE]
    /\ UNCHANGED <<handler, settings, sessions, objs, disk, appended, threads,
                   active_threads, streams>>

\* RLMService.cancel_run: complete_run(run_id, error="Cancelled by user"); return True
CancelComplete(run_id) ==
    /\ run_id \in DOMAIN cancels
    /\ cancels[run_id].pc = "complete"
    /\ runs' = complete_run(runs, run_id, None, CancelledByUser)
    /\ cancels' = [cancels EXCEPT ![run_id].pc = "returned", ![run_id].ret = TRUE]
    /\ UNCHANGED <<handler, settings, sessions, objs, disk, appended, threads,
                   active_threads, streams>>

\* ------------------------------------------------------- StreamCoordinator
\* a frame "data: <json>\n\n" yielded by event_generator.  Two fields of a
\* stream are history: busy is the last polling iteration in which the stream
\* delivered a log event or emitted a heartbeat (-1 when there is none);
\* replay tells that, when the stream opened, the run was completed and
\* archived and its thread had ended.
Frame(event) == [data |-> event]

Frames(events) == [i \in 1..Len(events) |-> Frame(events[i])]

DoneEvent(st) == Event("done", st.session_id, st.run_id, None, None)

HeartbeatEvent(st) == Event("heartbeat", st.session_id, st.run_id, None, None)

TimeoutEvent(st) ==
    Event("error", st.session_id, st.run_id,
          <<"Stream timeout - inference took too long">>, "TIMEOUT")

\* mutant: the for loop does not return at a terminal event
Delivered_all(events) == events

\* the events the for loop yields: all of them, or up to the first terminal one
Delivered(events) ==
    IF \E i \in 1..Len(events) : IsTerminal(events[i])
    THEN SubSeq(events, 1,
                CHOOSE i \in 1..Len(events) :
                    /\ IsTerminal(events[i])
                    /\ \A j \in 1..(i - 1) : ~IsTerminal(events[j]))
    ELSE events

\* GET /chat/{session_id}/stream/{run_id} -> stream_progress
StreamOpen(s, session_id, run_id) ==
    /\ s \notin DOMAIN streams
    /\ session_id \in sessions
    /\ run_id \in DOMAIN runs
    /\ runs[run_id].session_id = session_id
    /\ streams' = streams @@
          (s :> [session_id |-> session_id, run_id |-> run_id, pc |-> "poll",
                 last_index |-> 0, retry_count |-> 0, polls_since_heartbeat |-> 0,
                 had_events |-> FALSE, out |-> <<>>, busy |-> -1,
                 replay |-> /\ runs[run_id].completed
                            /\ run_id \in DOMAIN objs[session_id].progress_events
                            /\ threads[run_id].pc = "finished"])
    /\ UNCHANGED <<handler, settings, sessions, objs, disk, runs, appended, threads,
                   active_threads, cancels>>

\* mutant: a terminal event ends the stream without the done event
Poll_without_done(st, run) ==
    LET events == get_events(run, st.last_index)
        sent == Delivered(events)
        terminal == sent # <<>> /\ IsTerminal(sent[Len(sent)])
    IN  [st EXCEPT
            !.had_events = Len(events) > 0,
            !.busy = IF Len(events) > 0 THEN st.retry_count ELSE @,
            !.last_index = @ + Len(sent),
            !.out = @ \o Frames(sent),
            !.pc = IF terminal THEN "done" ELSE "check_completed"]

\* mutant: the for loop yields the events without advancing last_index
Poll_keeps_cursor(st, run) ==
    LET events == get_events(run, st.last_index)
        sent == Delivered(events)
        terminal == sent # <<>> /\ IsTerminal(sent[Len(sent)])
    IN  [st EXCEPT
            !.had_events = Len(events) > 0,
            !.busy = IF Len(events) > 0 THEN st.retry_count ELSE @,
            !.out = IF terminal
                    THEN Append(@ \o Frames(sent),
                                Frame(DoneEvent(st)))
                    ELSE @ \o Frames(sent),
            !.pc = IF terminal THEN "done" ELSE "check_completed"]

\* event_generator, lines 94-113: events = run.get_events(last_index) and the for loop
Poll(st, run) ==
    LET events == get_events(run, st.last_index)
        sent == Delivered(events)
        terminal == sent # <<>> /\ IsTerminal(sent[Len(sent)])
    IN  [st EXCEPT
            !.had_events = Len(events) > 0,
            !.busy = IF Len(events) > 0 THEN st.retry_count ELSE @,
            !.last_index = @ + Len(sent),
            !.out = IF terminal
                    THEN Append(@ \o Frames(sent),
                                Frame(DoneEvent(st)))
                    ELSE @ \o Frames(sent),
            !.pc = IF terminal THEN "done" ELSE "check_completed"]

\* mutant: emitting the heartbeat does not reset the idle counter
Heartbeat_without_reset(st) ==
    IF st.had_events
    THEN [st EXCEPT !.polls_since_heartbeat = 0]
    ELSE IF st.polls_since_heartbeat + 1 >= heartbeat_interval
         THEN [st EXCEPT !.polls_since_heartbeat = @ + 1,
                         !.busy = st.retry_count,
                         !.out = Append(@, Frame(HeartbeatEvent(st)))]
         ELSE [st EXCEPT !.polls_since_heartbeat = @ + 1]

\* mutant: the idle counter is not reset by an iteration that had events
Heartbeat_counts_busy_polls(st) ==
    IF st.polls_since_heartbeat + 1 >= heartbeat_interval
    THEN [st EXCEPT !.polls_since_heartbeat = 0,
                    !.busy = st.retry_count,
                    !.out = Append(@, Frame(HeartbeatEvent(st)))]
    ELSE [st EXCEPT !.polls_since_heartbeat = @ + 1]

\* event_generator, lines 127-140: the heartbeat bookkeeping
Heartbeat(st) ==
    IF st.had_events
    THEN [st EXCEPT !.polls_since_heartbeat = 0]
    ELSE IF st.polls_since_heartbeat + 1 >= heartbeat_interval
         THEN [st EXCEPT !.polls_since_heartbeat = 0,
                         !.busy = st.retry_count,
                         !.out = Append(@, Frame(HeartbeatEvent(st)))]
         ELSE [st EXCEPT !.polls_since_heartbeat = @ + 1]

\* mutant: the loop ends at the iteration limit without the timeout event
NextIteration_silent(st) ==
    IF st.retry_count + 1 < max_retries
    THEN [st EXCEPT !.retry_count = @ + 1, !.pc = "poll", !.had_events = FALSE]
    ELSE [st EXCEPT !.retry_count = @ + 1, !.pc = "timed_out", !.had_events = FALSE]

\* event_generator, lines 142-155: sleep, retry_count += 1, the loop test and the
\* timeout event after the loop
NextIteration(st) ==
    IF st.retry_count + 1 < max_retries
    THEN [st EXCEPT !.retry_count = @ + 1, !.pc = "poll", !.had_events = FALSE]
    ELSE [st EXCEPT !.retry_count = @ + 1, !.pc = "timed_out", !.had_events = FALSE,
                    !.out = Append(@, Frame(TimeoutEvent(st)))]

\* event_generator, lines 118-125: the done event of a completed, drained run
Done(st) ==
    [st EXCEPT !.pc = "done", !.out = Append(@, Frame(DoneEvent(st)))]

\* mutant: the done event that follows a terminal event is also put in the log
StreamPoll_logs_done(s) ==
    /\ s \in DOMAIN streams
    /\ streams[s].pc = "poll"
    /\ streams' = [streams EXCEPT ![s] = Poll(@, runs[@.run_id])]
    /\ runs' = IF Poll(streams[s], runs[streams[s].run_id]).pc = "done"
               THEN emit_event(runs, streams[s].run_id, DoneEvent(streams[s]))
               ELSE runs
    /\ UNCHANGED <<handler, settings, sessions, objs, disk, appended, threads,
                   active_threads, cancels>>

StreamPoll(s) ==
    /\ s \in DOMAIN streams
    /\ streams[s].pc = "poll"
    /\ streams' = [streams EXCEPT ![s] = Poll(@, runs[@.run_id])]
    /\ UNCHANGED <<handler, settings, sessions, objs, disk, runs, appended, threads,
                   active_threads, cancels>>

\* event_generator, line 116: the read of run.completed
StreamCheckCompleted(s) ==
    /\ s \in DOMAIN streams
    /\ streams[s].pc = "check_completed"
    /\ streams' = [streams EXCEPT ![s] =
          IF runs[@.run_id].completed
          THEN [@ EXCEPT !.pc = "check_count"]
          ELSE NextIteration(Heartbeat(@))]
    /\ UNCHANGED <<handler, settings, sessions, objs, disk, runs, appended, threads,
                   active_threads, cancels>>

\* event_generator, line 116: run.get_event_count() == last_index
StreamCheckCount(s) ==
    /\ s \in DOMAIN streams
    /\ streams[s].pc = "check_count"
    /\ streams' = [streams EXCEPT ![s] =
          IF get_event_count(runs[@.run_id]) = @.last_index
          THEN Done(@)
          ELSE NextIteration(Heartbeat(@))]
    /\ UNCHANGED <<handler, settings, sessions, objs, disk, runs, appended, threads,
                   active_threads, cancels>>

\* ----------------------------------------------------------- specification
\* the steps of run_thread other than writing the session file
WorkerBody(run_id) ==
    \/ WorkerValidate(run_id)
    \/ WorkerSessionStart(run_id)
    \/ WorkerCreateRLM(run_id)
    \/ WorkerAttachRLM(run_id)
    \/ WorkerProgress(run_id)
    \/ WorkerFinalAnswer(run_id)
    \/ \E response \in Responses : WorkerReturn(run_id, response)
    \/ \E e \in WorkerFailures : WorkerRaise(run_id, e)
    \/ WorkerComplete(run_id)
    \/ WorkerAddUser(run_id)
    \/ WorkerAddAssistant(run_id)
    \/ WorkerSaveMessages(run_id)
    \/ WorkerUsage(run_id)
    \/ WorkerArchive(run_id)
    \/ WorkerSaveEvents(run_id)
    \/ WorkerExceptEvent(run_id)
    \/ WorkerExceptComplete(run_id)
    \/ WorkerFinally(run_id)

\* run_thread where no other thread writes the session file while it does: a
\* write is one step
Worker(run_id) ==
    \/ WorkerBody(run_id)
    \/ WorkerPersistMessages(run_id)
    \/ WorkerPersistEvents(run_id)

Stream(s) ==
    \/ StreamPoll(s)
    \/ StreamCheckCompleted(s)
    \/ StreamCheckCount(s)

Next ==
    \/ \E session_id \in SessionIds, model_id \in ModelIds :
          CreateSession(session_id, model_id)
    \/ \E session_id \in SessionIds, message \in Messages :
          SubmitMessage(session_id, message)
    \/ \E run_id \in RunIds : Worker(run_id)
    \/ \E session_id \in SessionIds, run_id \in RunIds : CancelCheck(session_id, run_id)
    \/ \E run_id \in RunIds : CancelComplete(run_id)
    \/ \E session_id \in SessionIds, run_id \in RunIds : StreamOpen("a", session_id, run_id)
    \/ Stream("a")

Spec == Init /\ [][Next]_vars

\* Two clients stream the run of a session that was loaded from its durable
\* record at start-up; no cancel request is issued.  The clients are
\* interchangeable: "a" is the one that connects first.
InitPair ==
    /\ settings \in {[provider \in Providers |-> ok] : ok \in BOOLEAN}
    /\ sessions = {"s1"}
    /\ objs = ("s1" :> NewSession("s1", "claude-opus-4-5-20251101"))
    /\ disk = ("s1" :> to_persist_dict(NewSession("s1", "claude-opus-4-5-20251101")))
    /\ runs = <<>>
    /\ appended = <<>>
    /\ threads = <<>>
    /\ active_threads = {}
    /\ cancels = <<>>
    /\ streams = <<>>
    /\ handler = NoRequest

NextPair ==
    \/ \E session_id \in SessionIds, message \in Messages :
          SubmitMessage(session_id, message)
    \/ \E run_id \in RunIds : Worker(run_id)
    \/ \E session_id \in SessionIds, run_id \in RunIds : StreamOpen("a", session_id, run_id)
    \/ /\ "a" \in DOMAIN streams
       /\ \E session_id \in SessionIds, run_id \in RunIds : StreamOpen("b", session_id, run_id)
    \/ \E s \in StreamIds : Stream(s)

SpecPair == InitPair /\ [][NextPair]_vars

\* GET /chat/{session_id}/stream/{run_id} again, by the client whose stream
\* prev on the run has ended: the request carries session_id and run_id only
StreamReconnect(s, prev) ==
    /\ prev \in DOMAIN streams
    /\ streams[prev].pc \in {"done", "timed_out"}
    /\ StreamOpen(s, streams[prev].session_id, streams[prev].run_id)

\* One client streams the run of a session loaded at start-up and, when its
\* stream "a" has ended, reconnects as stream "b".
NextResume ==
    \/ \E session_id \in SessionIds, message \in Messages :
          SubmitMessage(session_id, message)
    \/ \E run_id \in RunIds : Worker(run_id)
    \/ \E session_id \in SessionIds, run_id \in RunIds : StreamOpen("a", session_id, run_id)
    \/ StreamReconnect("b", "a")
    \/ \E s \in StreamIds : Stream(s)

SpecResume == InitPair /\ [][NextResume]_vars

\* a run of an earlier life of the server
PriorRun == 9

\* the message lists of the session loaded at start-up
PriorHistories ==
    {<<>>,
     <<[role |-> "user", content |-> <<"y", "o">>, timestamp |-> UtcNow, run_id |-> 0],
       [role |-> "assistant", content |-> <<"o", "k">>, timestamp |-> UtcNow,
        run_id |-> PriorRun]>>}

\* the record of session "s1" in SESSIONS_DIR at start-up
StoredRecord(history) ==
    [session_id |-> "s1",
     model_id |-> "claude-opus-4-5-20251101",
     document_ids |-> <<>>,
     title |-> IF history = <<>> THEN None ELSE generate_title(history[1].content),
     status |-> "active",
     created_at |-> isoformat(UtcNow),
     ended_at |-> None,
     messages |-> [i \in 1..Len(history) |-> persist_message(history[i])],
     progress_events |-> <<>>]

\* A session loaded at start-up, with or without earlier messages, runs one
\* message; the run may be cancelled; nobody streams.
InitChat ==
    /\ settings \in {[provider \in Providers |-> ok] : ok \in BOOLEAN}
    /\ sessions = {"s1"}
    /\ \E history \in PriorHistories :
          /\ objs = ("s1" :> from_persist_dict(StoredRecord(history)))
          /\ disk = ("s1" :> StoredRecord(history))
    /\ runs = <<>>
    /\ appended = <<>>
    /\ threads = <<>>
    /\ active_threads = {}
    /\ cancels = <<>>
    /\ streams = <<>>
    /\ handler = NoRequest

NextChat ==
    \/ \E session_id \in SessionIds, message \in Messages :
          SubmitMessage(session_id, message)
    \/ \E run_id \in RunIds : Worker(run_id)
    \/ \E session_id \in SessionIds, run_id \in RunIds : CancelCheck(session_id, run_id)
    \/ \E run_id \in RunIds : CancelComplete(run_id)

SpecChat == InitChat /\ [][NextChat]_vars

\* the record of session "s1" when it was ended before the server stopped
EndedRecord(history) ==
    [StoredRecord(history) EXCEPT !.status = "ended", !.ended_at = isoformat(UtcNow)]

\* the records that can be in SESSIONS_DIR at start-up: a session is never
\* stored as ended without messages
StoredRecords ==
    {StoredRecord(history) : history \in PriorHistories}
        \cup {EndedRecord(history) : history \in PriorHistories \ {<<>>}}

\* The session store: a session loaded at start-up is ended, deleted, renamed
\* or moved to another model while it runs one message on a worker thread.
\* The requests are served one at a time by the event loop.
InitStore ==
    /\ settings = [provider \in Providers |-> TRUE]
    /\ sessions = {"s1"}
    /\ \E data \in StoredRecords :
          /\ objs = ("s1" :> from_persist_dict(data))
          /\ disk = ("s1" :> data)
    /\ runs = <<>>
    /\ appended = <<>>
    /\ threads = <<>>
    /\ active_threads = {}
    /\ cancels = <<>>
    /\ streams = <<>>
    /\ handler = NoRequest

NextStore ==
    \/ /\ handler.pc = "returned"
       /\ \E session_id \in SessionIds, message \in Messages :
             SubmitMessage(session_id, message)
    \/ \E run_id \in RunIds : Worker(run_id)
    \/ \E session_id \in SessionIds : EndSession(session_id)
    \/ EndSessionRemove
    \/ EndSessionMark
    \/ \E session_id \in SessionIds : DeleteSession(session_id)
    \/ \E session_id \in SessionIds, title \in Titles :
          UpdateSessionTitle(session_id, title)
    \/ \E session_id \in SessionIds, model_id \in ModelIds :
          UpdateSessionModel(session_id, model_id)

SpecStore == InitStore /\ [][NextStore]_vars

\* The session file under two writers: a session loaded at start-up runs one
\* message on a worker thread while the event loop serves title updates; each
\* _persist_session call opens the file, builds the dict and writes it.
NextPersist ==
    \/ /\ handler.pc = "returned"
       /\ \E session_id \in SessionIds, message \in Messages :
             SubmitMessage(session_id, message)
    \/ \E run_id \in RunIds : WorkerBody(run_id)
    \/ \E run_id \in RunIds : WorkerOpen(run_id)
    \/ \E run_id \in RunIds : WorkerToPersistDict(run_id)
    \/ \E run_id \in RunIds : WorkerJsonDump(run_id)
    \/ \E session_id \in SessionIds, title \in Titles :
          UpdateSessionTitleOpen(session_id, title)
    \/ HandlerToPersistDict
    \/ HandlerJsonDump

SpecPersist == InitStore /\ [][NextPersist]_vars

\* clock readings: on a whole second, and within a second
Datetimes ==
    {Datetime("2026-11-04T09:00:00", "000000"), Datetime("2026-11-04T09:00:01", "123456")}

\* the archive of a session: none, or the events of one run
Archives ==
    {<<>>,
     (PriorRun :> <<Event("session_start", "s1", PriorRun, None, None),
                    Event("final_answer", "s1", PriorRun, None, None),
                    Event("usage_summary", "s1", PriorRun, None, None)>>)}

\* the sessions a process can hold: created at some time with some model,
\* with or without a handle; untitled or renamed while without messages; with
\* one exchange, whose messages were added at any two times, a derived or a
\* given title, with or without archive, active or ended at some time
SessionsInMemory ==
    {[NewSession("s1", model_id) EXCEPT !.created_at = created_at, !.title = title,
                                        !.rlm_instance = rlm] :
        model_id \in ModelIds, created_at \in Datetimes, title \in {None} \cup Titles,
        rlm \in {None, RLM(<<"anthropic">>, "claude-opus-4-5-20251101")}}
    \cup
    {[NewSession("s1", model_id) EXCEPT
         !.created_at = created_at,
         !.title = title,
         !.rlm_instance = rlm,
         !.status = IF ended_at = None THEN "active" ELSE "ended",
         !.ended_at = ended_at,
         !.progress_events = archive,
         !.messages = <<[role |-> "user", content |-> <<"y", "o">>,
                         timestamp |-> asked_at, run_id |-> 0],
                        [role |-> "assistant", content |-> <<"o", "k">>,
                         timestamp |-> answered_at, run_id |-> PriorRun]>>] :
        model_id \in ModelIds, created_at \in Datetimes,
        title \in {generate_title(<<"y", "o">>)} \cup Titles,
        rlm \in {None, RLM(<<"anthropic">>, "claude-opus-4-5-20251101")},
        ended_at \in {None} \cup Datetimes, archive \in Archives,
        asked_at \in Datetimes, answered_at \in Datetimes}

\* SessionService.save_session
SaveSession(session_id) ==
    /\ handler.pc = "returned"
    /\ session_id \in sessions
    /\ disk' = persist_session(disk, objs[session_id])
    /\ handler' = Returned("save_session", session_id)
    /\ UNCHANGED <<settings, sessions, objs, runs, appended, threads, active_threads,
                   cancels, streams>>

\* the process ends and a new one is started: SessionService.__init__ loads
\* the sessions of SESSIONS_DIR; runs and threads of the old process are gone.
\* The data of the handler are the files named in the printed warnings.
StartUp ==
    /\ handler.pc = "returned"
    /\ objs' = load_persisted_sessions(disk)
    /\ sessions' = DOMAIN objs'
    /\ runs' = <<>>
    /\ appended' = <<>>
    /\ threads' = <<>>
    /\ active_threads' = {}
    /\ cancels' = <<>>
    /\ streams' = <<>>
    /\ handler' = [Returned("startup", "none") EXCEPT
                       !.data = {f \in DOMAIN disk : ~Parsable(disk[f])}]
    /\ UNCHANGED <<settings, disk>>

\* Persist and reload: a process holds one session, whose file is the record
\* written when it was created; the session is saved, and the process is
\* replaced by a new one that loads SESSIONS_DIR.
InitRoundTrip ==
    /\ settings = [provider \in Providers |-> TRUE]
    /\ sessions = {"s1"}
    /\ \E session \in SessionsInMemory :
          /\ objs = ("s1" :> session)
          /\ disk = ("s1" :> to_persist_dict(
                                [NewSession("s1", session.model_id)
                                    EXCEPT !.created_at = session.created_at]))
    /\ runs = <<>>
    /\ appended = <<>>
    /\ threads = <<>>
    /\ active_threads = {}
    /\ cancels = <<>>
    /\ streams = <<>>
    /\ handler = NoRequest

NextRoundTrip ==
    \/ \E session_id \in SessionIds : SaveSession(session_id)
    \/ StartUp

SpecRoundTrip == InitRoundTrip /\ [][NextRoundTrip]_vars

Word(n) == [i \in 1..n |-> "a"]

Spaces(n) == [i \in 1..n |-> " "]

\* message bodies around the limits of _generate_title: one or two words of
\* these lengths, one or two spaces between them, with and without spaces
\* before and after
TitleMessages ==
    {Spaces(l) \o Word(n) \o rest \o Spaces(t) :
        l \in {0, 1, 35}, n \in {2, 19, 20, 30, 49, 50, 51}, t \in {0, 1, 30},
        rest \in {<<>>} \cup {Spaces(g) \o Word(m) : g \in {1, 2}, m \in {1, 30, 40, 60}}}

\* Titles: a session loaded at start-up, with or without an earlier exchange,
\* has a run whose reasoning returned and which was completed with the result;
\* its worker thread adds the two messages while the event loop serves title
\* updates.
InitTitle ==
    /\ settings = [provider \in Providers |-> TRUE]
    /\ sessions = {"s1"}
    /\ \E history \in PriorHistories :
          /\ objs = ("s1" :> [from_persist_dict(StoredRecord(history)) EXCEPT
                                 !.rlm_instance = RLM(<<"anthropic">>, "claude-opus-4-5-20251101")])
          /\ disk = ("s1" :> StoredRecord(history))
    /\ \E message \in TitleMessages :
          LET log == <<Event("session_start", "s1", 1, None, None),
                       Event("final_answer", "s1", 1, None, None)>>
          IN  /\ runs = (1 :> [NewRun(1, "s1", message) EXCEPT
                                  !.completed = TRUE, !.result = <<"o", "k">>,
                                  !.events = log])
              /\ appended = (1 :> log)
    /\ threads = (1 :> [pc |-> "add_user", exc |-> None, result |-> <<"o", "k">>,
                        progress |-> 0, final |-> TRUE, provider |-> <<"anthropic">>,
                        rlm |-> RLM(<<"anthropic">>, "claude-opus-4-5-20251101"),
                        data |-> None])
    /\ active_threads = {1}
    /\ cancels = <<>>
    /\ streams = <<>>
    /\ handler = NoRequest

NextTitle ==
    \/ \E run_id \in RunIds : WorkerAppendUser(run_id)
    \/ \E run_id \in RunIds : WorkerSetTitle(run_id)
    \/ \E run_id \in RunIds : WorkerAddAssistant(run_id)
    \/ \E session_id \in SessionIds, title \in Titles :
          UpdateSessionTitle(session_id, title)

SpecTitle == InitTitle /\ [][NextTitle]_vars

\* clock readings in the order of time
Instants ==
    <<Datetime("2026-11-04T09:00:00", "000000"), UtcNow,
      Datetime("2026-11-04T09:00:01", "123456")>>

\* Timestamps: a session runs one message; the events of the worker carry the
\* readings of the worker's clock, which for the events of the reasoning
\* engine can be any instant.
NextStamps ==
    \/ \E session_id \in SessionIds, message \in Messages :
          SubmitMessage(session_id, message)
    \/ \E run_id \in RunIds : Worker(run_id)
    \/ \E run_id \in RunIds, k \in 1..Len(Instants) : WorkerProgressAt(run_id, Instants[k])

SpecStamps == InitPair /\ [][NextStamps]_vars

\* the event loop keeps serving every open stream
LiveSpec == Spec /\ WF_vars(Stream("a"))

\* ------------------------------------------------------------- properties
Closed(st) == st.pc \in {"done", "timed_out"}

\* the events a stream has put on the wire, in order
Wire(st) == [i \in 1..Len(st.out) |-> st.out[i].data]

IsSynthetic(event) ==
    \/ event.type \in {"done", "heartbeat"}
    \/ event.type = "error" /\ event.code = "TIMEOUT"

IsLogFrame(frame) == ~IsSynthetic(frame.data)

\* the log events a stream has put on the wire, in order
LogPart(st) == SelectSeq(Wire(st), LAMBDA event : ~IsSynthetic(event))

CountOf(events, type) == Cardinality({i \in 1..Len(events) : events[i].type = type})

HasType(events, type) == \E i \in 1..Len(events) : events[i].type = type

IsPrefix(p, q) == Len(p) <= Len(q) /\ SubSeq(q, 1, Len(p)) = p

\* the wire ends with a final_answer event and one done event after it
EndsFinalDone(st) ==
    LET wire == Wire(st) IN
    /\ Len(wire) >= 2
    /\ wire[Len(wire) - 1].type = "final_answer"
    /\ wire[Len(wire)].type = "done"
    /\ CountOf(wire, "done") = 1

\* the longest log without a terminal event: session_start, the progress
\* events and usage_summary
MaxLog == MaxProgress + 2

\* the prefix of a log that ends with its first terminal event; the whole log
\* when it holds none
RECURSIVE UpToFirstTerminal(_)
UpToFirstTerminal(log) ==
    IF log = <<>> THEN <<>>
    ELSE IF Head(log).type \in {"final_answer", "error"} THEN <<Head(log)>>
    ELSE <<Head(log)>> \o UpToFirstTerminal(Tail(log))

\* C1 as stated: every stream that closed with done on a run whose log has
\* received a final_answer event has emitted that final_answer, then exactly one
\* done, as its last two events.
C1_Original ==
    \A s \in DOMAIN streams :
        (streams[s].pc = "done" /\ HasType(runs[streams[s].run_id].events, "final_answer"))
            => EndsFinalDone(streams[s])

\* C1 amended: a stream that starts a polling iteration while the log holds a
\* final_answer event at or beyond its cursor emits that event, then exactly
\* one done event, and closes; a closed stream emits nothing afterwards.
C1_FinalAnswerThenDone ==
    /\ \A s \in {"a"} :
          (/\ s \in DOMAIN streams
           /\ streams[s].pc = "poll"
           /\ HasType(get_events(runs[streams[s].run_id], streams[s].last_index),
                      "final_answer"))
          ~> (/\ s \in DOMAIN streams
              /\ streams[s].pc = "done"
              /\ EndsFinalDone(streams[s]))
    /\ [][\A s \in DOMAIN streams : Closed(streams[s]) => streams'[s] = streams[s]]_vars

C1_Witness ==
    \E s \in DOMAIN streams :
        /\ streams[s].pc = "done"
        /\ EndsFinalDone(streams[s])
        /\ HasType(runs[streams[s].run_id].events, "usage_summary")

\* C2: complete_run is idempotent, first writer wins: once a run is completed,
\* no later call of complete_run changes its recorded result or error.
C2_FirstWriterWins ==
    [][\A run_id \in DOMAIN runs :
          runs[run_id].completed =>
              /\ runs'[run_id].result = runs[run_id].result
              /\ runs'[run_id].error = runs[run_id].error]_vars

\* C3: once cancel_run has returned true for a run, the run keeps the error
\* "Cancelled by user" and no result, whatever its worker does afterwards.
C3_CancelledStaysCancelled ==
    \A run_id \in DOMAIN cancels :
        (cancels[run_id].pc = "returned" /\ cancels[run_id].ret)
            => /\ runs[run_id].error = CancelledByUser
               /\ runs[run_id].result = None

NoTerminal(events) == \A i \in 1..Len(events) : ~IsTerminal(events[i])

\* the wire holds exactly one done event, as its last event
EndsWithOneDone(st) ==
    /\ st.out # <<>>
    /\ Wire(st)[Len(st.out)].type = "done"
    /\ CountOf(Wire(st), "done") = 1

\* C4: a stream that starts a polling iteration on a completed run whose log
\* holds no terminal event closes with exactly one done event, its last
\* event, unless a further event is appended to the log in the meantime.
C4_CompletionDetected ==
    \A s \in {"a"} : \A n \in 0..MaxLog :
        (/\ s \in DOMAIN streams
         /\ streams[s].pc = "poll"
         /\ runs[streams[s].run_id].completed
         /\ NoTerminal(runs[streams[s].run_id].events)
         /\ Len(runs[streams[s].run_id].events) = n)
        ~> (/\ s \in DOMAIN streams
            /\ \/ streams[s].pc = "done" /\ EndsWithOneDone(streams[s])
               \/ Len(runs[streams[s].run_id].events) > n)

C4_Witness ==
    \E s \in DOMAIN streams :
        LET st == streams[s]
            run == runs[st.run_id]
        IN  /\ st.pc = "done"
            /\ EndsWithOneDone(st)
            /\ run.completed
            /\ run.error = CancelledByUser
            /\ NoTerminal(run.events)
            /\ LogPart(st) = run.events
            /\ Len(run.events) >= 2
            /\ st.retry_count >= 1

C6_FailureIsRecorded ==
    \A run_id \in DOMAIN threads :
        (threads[run_id].pc \in {"finally", "finished"} /\ threads[run_id].exc # None)
            => LET run == runs[run_id] IN
               /\ run.events # <<>>
               /\ run.events[Len(run.events)] =
                     Event("error", run.session_id, run_id, threads[run_id].exc,
                           "INFERENCE_ERROR")
               /\ run.completed
               /\ run.result = None
               /\ run.error \in {threads[run_id].exc, CancelledByUser}
               /\ run.error = CancelledByUser =>
                     (run_id \in DOMAIN cancels /\ cancels[run_id].ret)

C6_Witness ==
    \E run_id \in DOMAIN threads :
        /\ threads[run_id].pc = "finished"
        /\ threads[run_id].exc \in WorkerFailures
        /\ runs[run_id].error = threads[run_id].exc
        /\ objs[runs[run_id].session_id].messages # <<>>

\* C7: no run exists, no thread was started and no event was logged for a
\* session whose model's provider has no credentials.
C7_NoRunWithoutCredentials ==
    \A run_id \in DOMAIN runs :
        settings[get_model_provider(objs[runs[run_id].session_id].model_id)]

\* C8: get_events(0) is the sequence of the add_event calls in call order,
\* get_events(k) is its suffix from index k, get_event_count is its length.
C8_LogIsAppendOrder ==
    \A run_id \in DOMAIN runs :
        /\ get_events(runs[run_id], 0) = appended[run_id]
        /\ get_event_count(runs[run_id]) = Len(appended[run_id])
        /\ \A k \in 0..(Len(appended[run_id]) + 1) :
              /\ Len(get_events(runs[run_id], k)) =
                    (IF k > Len(appended[run_id]) THEN 0 ELSE Len(appended[run_id]) - k)
              /\ \A i \in 1..Len(get_events(runs[run_id], k)) :
                    get_events(runs[run_id], k)[i] = appended[run_id][k + i]

C8_Witness ==
    \E run_id \in DOMAIN runs :
        /\ Len(appended[run_id]) >= 3
        /\ get_events(runs[run_id], 1) # <<>>
        /\ get_events(runs[run_id], 1) # get_events(runs[run_id], 0)

HeartbeatEmitted(s) ==
    CountOf(Wire(streams'[s]), "heartbeat") > CountOf(Wire(streams[s]), "heartbeat")

\* C10: a heartbeat is emitted only in a polling iteration that delivered no
\* log event, and never after a terminal event or a done event.
C10_HeartbeatOnlyWhenIdle ==
    /\ [][\A s \in DOMAIN streams :
            HeartbeatEmitted(s)
               => /\ streams[s].busy # streams[s].retry_count
                  /\ ~streams[s].had_events]_vars
    /\ [](\A s \in DOMAIN streams :
            LET out == streams[s].out IN
            /\ (streams[s].last_index > 0) <=> (\E j \in 1..Len(out) : IsLogFrame(out[j]))
            /\ \A i \in 1..Len(out) :
                  out[i].data.type = "heartbeat"
                      => \A j \in 1..(i - 1) :
                            /\ ~IsTerminal(out[j].data)
                            /\ out[j].data.type # "done")

C10_Witness ==
    \E s \in DOMAIN streams :
        LET out == streams[s].out IN
        /\ \E i \in 1..Len(out) : out[i].data.type = "heartbeat"
        /\ \E i \in 1..Len(out) : IsLogFrame(out[i])
        /\ streams[s].pc = "done"

\* C11: the step that ends a polling iteration emits a heartbeat exactly when
\* the iteration delivered no event and is the heartbeat_interval-th iteration
\* since the last one that delivered an event or emitted a heartbeat (since
\* the start when there is none); no other step emits one.  Emitting it puts
\* exactly one heartbeat on the wire, leaves last_index unchanged, resets
\* polls_since_heartbeat and does not close the stream with done (the stream
\* polls on, unless this was its last iteration).  At the head of every
\* iteration polls_since_heartbeat is the number of iterations since then.
C11_HeartbeatAtInterval ==
    /\ [](\A s \in DOMAIN streams :
            LET st == streams[s] IN
            /\ st.busy \in -1..st.retry_count
            /\ st.pc \in {"poll", "timed_out"} =>
                  /\ st.busy < st.retry_count
                  /\ st.polls_since_heartbeat = st.retry_count - 1 - st.busy
                  /\ st.polls_since_heartbeat < heartbeat_interval)
    /\ [][\A s \in DOMAIN streams :
            LET st == streams[s] IN
            /\ HeartbeatEmitted(s) => streams'[s].retry_count = st.retry_count + 1
            /\ streams'[s].retry_count = st.retry_count + 1
                  => (HeartbeatEmitted(s)
                        <=> (st.busy # st.retry_count
                             /\ st.retry_count - st.busy = heartbeat_interval))
            /\ HeartbeatEmitted(s)
                  => /\ CountOf(Wire(streams'[s]), "heartbeat")
                           = CountOf(Wire(st), "heartbeat") + 1
                     /\ LogPart(streams'[s]) = LogPart(st)
                     /\ streams'[s].last_index = st.last_index
                     /\ streams'[s].polls_since_heartbeat = 0
                     /\ streams'[s].busy = st.retry_count
                     /\ \/ streams'[s].pc = "poll"
                        \/ /\ streams'[s].pc = "timed_out"
                           /\ streams'[s].retry_count = max_retries]_vars

\* a stream emitted a heartbeat, polled on and delivered a log event afterwards
C11_Witness ==
    \E s \in DOMAIN streams :
        LET out == streams[s].out IN
        \E i \in 1..Len(out) : \E j \in (i + 1)..Len(out) :
            /\ out[i].data.type = "heartbeat"
            /\ IsLogFrame(out[j])
            /\ streams[s].last_index > 0

IsTimeout(event) == event.type = "error" /\ event.code = "TIMEOUT"

\* C12: every open stream closes.  A stream makes at most max_retries polling
\* iterations; it is timed out exactly when it has made max_retries iterations
\* without closing with done, and then the timeout error event (code TIMEOUT)
\* is the last event on its wire, the only one of its kind, and no done event
\* is on the wire; a stream that is not timed out has emitted no timeout event.
C12_StreamTerminates ==
    /\ \A s \in {"a"} :
          (s \in DOMAIN streams) ~> (s \in DOMAIN streams /\ Closed(streams[s]))
    /\ [](\A s \in DOMAIN streams :
            LET st == streams[s]
                wire == Wire(st)
                timeouts == {i \in 1..Len(wire) : IsTimeout(wire[i])}
            IN  /\ st.retry_count <= max_retries
                /\ st.pc = "timed_out" <=> st.retry_count = max_retries
                /\ st.pc = "timed_out" =>
                      /\ timeouts = {Len(wire)}
                      /\ wire[Len(wire)] = TimeoutEvent(st)
                      /\ ~HasType(wire, "done")
                /\ st.pc # "timed_out" => timeouts = {})

\* a stream timed out on a run that is still executing
C12_Witness ==
    \E s \in DOMAIN streams :
        /\ streams[s].pc = "timed_out"
        /\ IsTimeout(Wire(streams[s])[Len(streams[s].out)])
        /\ ~runs[streams[s].run_id].completed
        /\ threads[streams[s].run_id].pc = "completion"
        /\ streams[s].last_index > 0

\* C13: no step of a stream changes a run, a session, a thread or the durable
\* records; no log holds a heartbeat, done or timeout event; the worker of a
\* run observed by a timed-out stream can still take its next step.
C13_StreamIsReadOnly ==
    /\ [][streams' # streams =>
            UNCHANGED <<runs, appended, objs, disk, sessions, threads, active_threads,
                        cancels, handler>>]_vars
    /\ [](\A run_id \in DOMAIN runs :
            \A i \in 1..Len(runs[run_id].events) : ~IsSynthetic(runs[run_id].events[i]))
    /\ [](\A s \in DOMAIN streams :
            (streams[s].pc = "timed_out" /\ threads[streams[s].run_id].pc # "finished")
               => ENABLED Worker(streams[s].run_id))

\* a stream timed out and the run completed with a result afterwards
C13_Witness ==
    \E s \in DOMAIN streams :
        LET run == runs[streams[s].run_id] IN
        /\ streams[s].pc = "timed_out"
        /\ HasType(Wire(streams[s]), "heartbeat")
        /\ run.completed
        /\ run.result # None
        /\ run.error = None
        /\ HasType(run.events, "final_answer")
        /\ ~HasType(Wire(streams[s]), "final_answer")

\* C14: a stream opened by reconnecting after an earlier stream of the same
\* run ended with cursor c delivers only log events of index >= c, in log
\* order: what it has delivered is a prefix of the log from index c on.
C14_ResumesAtCursor ==
    ("b" \in DOMAIN streams) =>
        LET c == streams["a"].last_index
            log == runs[streams["b"].run_id].events
        IN  IsPrefix(LogPart(streams["b"]), SubSeq(log, c + 1, Len(log)))

\* C15: the step of the worker that follows the return of the result completes
\* the run with that result and no error; the worker then appends user(m),
\* then assistant(result) with the run_id, after the session's earlier
\* messages and nothing else, and when its save has succeeded the durable
\* record of the session (still in the store) holds the session as it is.
C15_ResultThenTwoMessages ==
    /\ [][\A run_id \in DOMAIN threads :
            (threads[run_id].pc = "complete" /\ threads'[run_id].pc # "complete")
               => /\ threads'[run_id].pc = "add_user"
                  /\ runs'[run_id].completed
                  /\ runs'[run_id].result = threads[run_id].result
                  /\ runs'[run_id].result \in Responses
                  /\ runs'[run_id].error = None]_vars
    /\ [](\A run_id \in DOMAIN threads :
            LET session_id == runs[run_id].session_id
                messages == objs[session_id].messages
                user == [role |-> "user", content |-> runs[run_id].message,
                         timestamp |-> UtcNow, run_id |-> 0]
                assistant == [role |-> "assistant", content |-> threads[run_id].result,
                              timestamp |-> UtcNow, run_id |-> run_id]
                pc == threads[run_id].pc
            IN  /\ pc \in {"validate", "session_start", "create_rlm", "attach_rlm",
                          "reuse_rlm", "completion", "complete", "add_user"}
                      => messages \in PriorHistories
                /\ pc = "add_assistant"
                      => \E prior \in PriorHistories : messages = Append(prior, user)
                /\ (pc \in {"save_messages", "persist_messages", "usage", "archive",
                           "save_events", "persist_events"}
                       \/ (pc \in {"finally", "finished"} /\ threads[run_id].exc = None))
                      => \E prior \in PriorHistories : messages = prior \o <<user, assistant>>
                /\ (pc \in {"usage", "archive"} /\ session_id \in sessions)
                      => /\ session_id \in DOMAIN disk
                         /\ disk[session_id].messages =
                               [i \in 1..Len(messages) |-> persist_message(messages[i])]
                         /\ disk[session_id].title = objs[session_id].title
                /\ (pc = "usage" /\ session_id \in sessions)
                      => disk[session_id] = to_persist_dict(objs[session_id]))

\* a run on a session with earlier messages ended well: four messages, stored
C15_Witness ==
    \E run_id \in DOMAIN threads :
        LET session_id == runs[run_id].session_id IN
        /\ threads[run_id].pc = "finished"
        /\ threads[run_id].exc = None
        /\ Len(objs[session_id].messages) = 4
        /\ objs[session_id].messages[4].run_id = run_id
        /\ objs[session_id].messages[3].content = runs[run_id].message
        /\ Len(disk[session_id].messages) = 4
        /\ disk[session_id].messages[4].content = objs[session_id].messages[4].content
        /\ runs[run_id].result = objs[session_id].messages[4].content

\* C16: once the worker of a run that did not fail has archived the events,
\* progress_events[run_id] of the session equals the run's log, and exactly
\* one usage_summary event is in it, as its last event.
C16_ArchiveIsTheLog ==
    \A run_id \in DOMAIN threads :
        LET session == objs[runs[run_id].session_id] IN
        (/\ threads[run_id].pc \in {"save_events", "persist_events", "finally", "finished"}
         /\ threads[run_id].exc = None
         /\ run_id \in DOMAIN session.progress_events)
        => LET archive == session.progress_events[run_id] IN
           /\ archive = runs[run_id].events
           /\ CountOf(archive, "usage_summary") = 1
           /\ archive[Len(archive)].type = "usage_summary"

\* C17: end_session takes the removing branch exactly when the session has no
\* message at its test; on that branch it returns true with the session out of
\* the map and without durable record; on the other branch it returns true
\* with the session in the map, ended, with an ended_at, and stored so.  No
\* session in the map and no durable record is ended without messages or
\* without ended_at.
C17_EndRemovesOrKeeps ==
    /\ [][/\ (handler.pc = "returned" /\ handler'.pc # "returned")
              => /\ handler'.op = "end_session"
                 /\ (handler'.pc = "remove")
                       <=> (Len(objs[handler'.session_id].messages) = 0)
          /\ (handler.pc = "remove" /\ handler'.pc # "remove")
              => /\ handler' = Returned("end_session", handler.session_id)
                 /\ handler.session_id \notin sessions'
                 /\ handler.session_id \notin DOMAIN disk'
          /\ (handler.pc = "mark" /\ handler'.pc # "mark")
              => /\ handler' = Returned("end_session", handler.session_id)
                 /\ handler.session_id \in sessions' <=> handler.session_id \in sessions
                 /\ objs'[handler.session_id].status = "ended"
                 /\ objs'[handler.session_id].ended_at # None
                 /\ objs'[handler.session_id].messages # <<>>
                 /\ disk'[handler.session_id] = to_persist_dict(objs'[handler.session_id])
          ]_vars
    /\ [](\A session_id \in sessions :
            objs[session_id].status = "ended"
               => /\ objs[session_id].messages # <<>>
                  /\ objs[session_id].ended_at # None)
    /\ [](\A session_id \in DOMAIN disk :
            disk[session_id].status = "ended"
               => /\ disk[session_id].messages # <<>>
                  /\ disk[session_id].ended_at # None)

\* end_session has removed a session without messages whose run is under way
C17_Witness ==
    /\ handler = Returned("end_session", "s1")
    /\ "s1" \notin sessions
    /\ "s1" \notin DOMAIN disk
    /\ objs["s1"].messages = <<>>
    /\ objs["s1"].status = "active"
    /\ 1 \in DOMAIN threads

\* C18: when delete_session has returned true, the session is not in the map
\* and it has no durable record, until the next request is served.
C18_DeletedStaysDeleted ==
    \A session_id \in SessionIds :
        handler = Returned("delete_session", session_id)
            => /\ session_id \notin sessions
               /\ session_id \notin DOMAIN disk

\* C19: the status of a session is active or ended, and no step takes a
\* session from ended to another status.
C19_EndedStaysEnded ==
    /\ [](\A session_id \in DOMAIN objs : objs[session_id].status \in {"active", "ended"})
    /\ [][\A session_id \in DOMAIN objs :
            objs[session_id].status = "ended" => objs'[session_id].status = "ended"]_vars

\* an ended session has run a message to its end and was moved to another model
C19_Witness ==
    /\ "s1" \in sessions
    /\ objs["s1"].status = "ended"
    /\ handler = Returned("update_session_model", "s1")
    /\ objs["s1"].model_id = "gpt-5-mini"
    /\ 1 \in DOMAIN threads
    /\ threads[1].pc = "finished"
    /\ threads[1].exc = None
    /\ Len(objs["s1"].messages) = 4

\* C20: the handle attached to a session in the map was created for the
\* model_id the session has.
C20_HandleMatchesModel ==
    \A session_id \in sessions :
        objs[session_id].rlm_instance # None
            => ModelOf(objs[session_id].rlm_instance) = objs[session_id].model_id

\* C21: a session in the map whose status is ended has no handle attached.
C21_EndedHasNoHandle ==
    \A session_id \in sessions :
        objs[session_id].status = "ended" => objs[session_id].rlm_instance = None

\* no _persist_session call is in progress and no run is under way or ended
\* on a failed write
Idle ==
    /\ handler.pc = "returned"
    /\ \A run_id \in DOMAIN threads :
          /\ threads[run_id].pc = "finished"
          /\ threads[run_id].exc # None => threads[run_id].result = None

\* C22: when no store operation is in flight, every session in the map has a
\* durable record, and the record is the dict of the session as it is in
\* memory.
C22_DiskIsMemoryWhenIdle ==
    Idle => \A session_id \in sessions :
               /\ session_id \in DOMAIN disk
               /\ disk[session_id] = to_persist_dict(objs[session_id])

\* C23: at every instant each file of SESSIONS_DIR holds a whole record: a
\* process that starts now loads every session that has a file.
C23_ReaderSeesWholeRecord ==
    \A session_id \in DOMAIN disk :
        /\ Parsable(disk[session_id])
        /\ session_id \in DOMAIN load_persisted_sessions(disk)

\* C24: loading the dict of a session gives the session back in every field
\* but the handle; and a process started after a session was saved holds that
\* session as the old process held it, the handle apart.
C24_PersistReloadRoundTrip ==
    /\ [](\A session_id \in DOMAIN objs :
            from_persist_dict(to_persist_dict(objs[session_id]))
                = [objs[session_id] EXCEPT !.rlm_instance = None])
    /\ [][(handler.op = "save_session" /\ handler'.op = "startup")
            => \A session_id \in sessions :
                  /\ session_id \in sessions'
                  /\ objs'[session_id] = [objs[session_id] EXCEPT !.rlm_instance = None]]_vars

\* a new process has loaded an ended session with an archive, a message
\* added on a whole second and one added within a second
C24_Witness ==
    /\ handler.op = "startup"
    /\ "s1" \in sessions
    /\ objs["s1"].status = "ended"
    /\ objs["s1"].ended_at = Datetime("2026-11-04T09:00:01", "123456")
    /\ objs["s1"].created_at = Datetime("2026-11-04T09:00:00", "000000")
    /\ Len(objs["s1"].messages) = 2
    /\ objs["s1"].messages[1].timestamp = Datetime("2026-11-04T09:00:00", "000000")
    /\ objs["s1"].messages[2].timestamp = Datetime("2026-11-04T09:00:01", "123456")
    /\ objs["s1"].messages[2].run_id = PriorRun
    /\ PriorRun \in DOMAIN objs["s1"].progress_events
    /\ disk["s1"].messages[2].timestamp = <<"2026-11-04T09:00:01", ".", "123456">>

Ellipsis == <<".", ".", ".">>

\* the lengths from 20 to 49 at which a text can be cut just before a space
WordCuts(text) == {n \in 20..49 : n + 1 <= Len(text) /\ text[n + 1] = " "}

Largest(S) == CHOOSE n \in S : \A m \in S : m <= n

\* the text of a title before its ellipsis
Body(title) == SubSeq(title, 1, Len(title) - 3)

EndsInEllipsis(title) ==
    Len(title) >= 3 /\ SubSeq(title, Len(title) - 2, Len(title)) = Ellipsis

\* the step of add_message that assigns the derived title, for a message for
\* which long holds: title is the title assigned, text the message without
\* surrounding whitespace
DerivesTitle(run_id, P(_, _, _)) ==
    LET message == runs[run_id].message IN
    (threads[run_id].pc = "generate_title" /\ threads'[run_id].pc # "generate_title")
        => P(objs'[runs[run_id].session_id].title, message, strip(message))

\* C25 as stated: whenever a title is derived from a message of more than 50
\* characters, the title has at most 53 characters and ends in "...", and the
\* text before the ellipsis is the message cut before the last space that
\* leaves 20 to 49 characters, or, when there is no such space, its first 50
\* characters.
C25_Original ==
    [][\A run_id \in DOMAIN threads :
          DerivesTitle(run_id,
              LAMBDA title, message, text :
                  Len(message) > 50
                     => /\ Len(title) <= 53
                        /\ EndsInEllipsis(title)
                        /\ IF WordCuts(text) # {}
                           THEN Body(title) = Take(text, Largest(WordCuts(text)))
                           ELSE Body(title) \in {Take(text, 50), Take(message, 50)})]_vars

\* C25, amended: whenever a title is derived from a message that has more
\* than 50 characters without its surrounding whitespace, the title has at
\* most 53 characters and ends in "..."; the text before the ellipsis is the
\* stripped message cut before the last space that leaves 20 to 49
\* characters; when no space leaves that many it is the first 50 characters of
\* the message as submitted if a space is among the first 50 stripped
\* characters, and the first 50 stripped characters if none is.
C25_LongTitleCutAtWord ==
    [][\A run_id \in DOMAIN threads :
          DerivesTitle(run_id,
              LAMBDA title, message, text :
                  Len(text) > 50
                     => /\ Len(title) <= 53
                        /\ EndsInEllipsis(title)
                        /\ IF WordCuts(text) # {}
                           THEN Body(title) = Take(text, Largest(WordCuts(text)))
                           ELSE IF \E i \in 1..50 : text[i] = " "
                           THEN Body(title) = Take(message, 50)
                           ELSE Body(title) = Take(text, 50))]_vars

\* the title of a message of 30 characters, two spaces and 40 characters is
\* the 30 characters, a space and the ellipsis
C25_Witness ==
    /\ threads[1].pc = "add_assistant"
    /\ runs[1].message = Word(30) \o Spaces(2) \o Word(40)
    /\ objs["s1"].messages[1].content = runs[1].message
    /\ objs["s1"].title = Word(30) \o <<" ">> \o Ellipsis

\* C26 as stated: whenever a title is derived from a message of at most 50
\* characters, the title is the message.
C26_Original ==
    [][\A run_id \in DOMAIN threads :
          DerivesTitle(run_id,
              LAMBDA title, message, text : Len(message) <= 50 => title = message)]_vars

\* C26, amended: whenever a title is derived from a message that has at most
\* 50 characters without its surrounding whitespace, the title is the message
\* without the spaces before and after it, and nothing else is changed.
C26_ShortTitleIsStrippedMessage ==
    [][\A run_id \in DOMAIN threads :
          DerivesTitle(run_id,
              LAMBDA title, message, text :
                  Len(text) <= 50
                     => /\ Len(title) <= 50
                        /\ title # <<>>
                        /\ title[1] # " "
                        /\ title[Len(title)] # " "
                        /\ \E l \in 0..Len(message), t \in 0..Len(message) :
                              message = Spaces(l) \o title \o Spaces(t))]_vars

\* a message of one space and two characters gave the title of two characters
C26_Witness ==
    /\ threads[1].pc = "add_assistant"
    /\ runs[1].message = <<" ", "a", "a">>
    /\ objs["s1"].messages[1].content = <<" ", "a", "a">>
    /\ objs["s1"].title = <<"a", "a">>

\* C27: an add_message call goes on to derive a title only when it appends a
\* user message to a session that has no title and no earlier user message;
\* a call that starts when the session has a title leaves the title as it is;
\* appending an assistant message leaves the title as it is; and the title
\* changes only by update_session_title or by the assignment of a call that
\* found no title.
C27_TitleOnlyFromFirstUserMessage ==
    [][\A run_id \in DOMAIN threads :
          LET session_id == runs[run_id].session_id
              before == objs[session_id]
              after == objs'[session_id]
              pc == threads[run_id].pc
              pc_after == threads'[run_id].pc
          IN  /\ (pc = "add_user" /\ pc_after # "add_user")
                    => /\ after.messages[Len(after.messages)].role = "user"
                       /\ after.title = before.title
                       /\ pc_after = "generate_title"
                             => /\ before.title = None
                                /\ ~\E i \in 1..Len(before.messages) :
                                       before.messages[i].role = "user"
                       /\ before.title # None => pc_after = "add_assistant"
              /\ (pc = "add_assistant" /\ pc_after # "add_assistant")
                    => /\ after.messages[Len(after.messages)].role = "assistant"
                       /\ after.title = before.title
              /\ after.title # before.title
                    => \/ handler' = Returned("update_session_title", session_id)
                       \/ pc = "generate_title" /\ pc_after = "add_assistant"]_vars

\* a session with an earlier exchange got two more messages, nobody renamed
\* it, and its title is still the one derived from its first message
C27_Witness ==
    /\ threads[1].pc = "save_messages"
    /\ handler = NoRequest
    /\ Len(objs["s1"].messages) = 4
    /\ objs["s1"].messages[3].role = "user"
    /\ objs["s1"].messages[3].content = Word(2)
    /\ objs["s1"].title = <<"y", "o">>

\* the place in time of a timestamp
InstantOf(timestamp) == CHOOSE k \in 1..Len(Instants) : isoformat(Instants[k]) = timestamp

\* C28: in the log of every run the timestamps do not decrease in append
\* order.
C28_TimestampsNonDecreasing ==
    \A run_id \in DOMAIN runs :
        \A i, j \in 1..Len(runs[run_id].events) :
            i < j => InstantOf(runs[run_id].events[i].timestamp)
                        <= InstantOf(runs[run_id].events[j].timestamp)

\* C29: the log of a run holds at most one terminal event, and after a
\* terminal event nothing but the usage summary.
C29_TerminalAtMostOnce ==
    \A run_id \in DOMAIN runs :
        LET log == runs[run_id].events IN
        /\ Cardinality({i \in 1..Len(log) : IsTerminal(log[i])}) <= 1
        /\ \A i, j \in 1..Len(log) :
              (IsTerminal(log[i]) /\ i < j) => log[j].type = "usage_summary"

\* C30: the log of a run that is completed with an error holds an error
\* event.
C30_ErrorRunHasErrorEvent ==
    \A run_id \in DOMAIN runs :
        (runs[run_id].completed /\ runs[run_id].error # None)
            => HasType(runs[run_id].events, "error")

\* C31: a run is created not completed; no step takes completed from true
\* to false; the step that takes it from false to true is the worker's
\* complete_run, after the result or in its except branch, or the
\* complete_run of a cancel request; and a run whose worker has ended is
\* completed.
C31_CompletedIsMonotonic ==
    /\ [][\A run_id \in DOMAIN runs' :
            IF run_id \notin DOMAIN runs
            THEN ~runs'[run_id].completed
            ELSE /\ runs[run_id].completed => runs'[run_id].completed
                 /\ (~runs[run_id].completed /\ runs'[run_id].completed)
                       => \/ /\ threads[run_id].pc \in {"complete", "except_complete"}
                             /\ threads'[run_id].pc # threads[run_id].pc
                          \/ /\ run_id \in DOMAIN cancels
                             /\ cancels[run_id].pc = "complete"
                             /\ cancels'[run_id].pc = "returned"
                             /\ cancels'[run_id].ret]_vars
    /\ [](\A run_id \in DOMAIN threads :
            threads[run_id].pc = "finished" => runs[run_id].completed)

\* a run was cancelled and, after that, completed again by its worker with
\* the result
C31_Witness ==
    /\ 1 \in DOMAIN cancels
    /\ cancels[1].pc = "returned"
    /\ cancels[1].ret
    /\ threads[1].pc = "finished"
    /\ runs[1].completed
    /\ runs[1].result \in Responses

\* C32: in every step the log of each run is a prefix of the log after the
\* step, and no run leaves the registry.
C32_LogIsAppendOnly ==
    [][\A run_id \in DOMAIN runs :
          /\ run_id \in DOMAIN runs'
          /\ IsPrefix(runs[run_id].events, runs'[run_id].events)]_vars

\* the log of a run was read to its terminal event by a stream and archived
\* by the worker, and the run was cancelled
C32_Witness ==
    /\ "a" \in DOMAIN streams
    /\ streams["a"].pc = "done"
    /\ streams["a"].last_index >= 2
    /\ threads[1].pc = "finished"
    /\ 1 \in DOMAIN objs["s1"].progress_events
    /\ 1 \in DOMAIN cancels
    /\ cancels[1].pc = "returned"
    /\ cancels[1].ret
    /\ Len(runs[1].events) >= 3

C34_DoneStreamHasWholeLog ==
    \A s \in DOMAIN streams :
        streams[s].pc = "done"
            => Len(runs[streams[s].run_id].events) <= streams[s].last_index

\* C35: in the step in which a stream emits done after a final_answer event,
\* the run is completed with its result and the session's history holds the
\* run's assistant message.
C35_DoneAfterRunIsRecorded ==
    [][\A s \in DOMAIN streams' :
          LET st == streams'[s]
              run == runs'[st.run_id] IN
          (/\ st.pc = "done"
           /\ (s \in DOMAIN streams => streams[s].pc # "done")
           /\ EndsFinalDone(st))
            => /\ run.completed
               /\ run.result \in Responses
               /\ \E i \in 1..Len(objs'[run.session_id].messages) :
                     /\ objs'[run.session_id].messages[i].role = "assistant"
                     /\ objs'[run.session_id].messages[i].run_id = st.run_id]_vars

\* C36: a cancel request returns true only in a step that takes the run from
\* not completed to completed; it returns false only on a completed run, and
\* then leaves the run's result and error as they were; and no cancel request
\* that found the run completed by its worker changes result or error.
C36_CancelReturnsTrueOnlyIfItCompleted ==
    [][\A run_id \in DOMAIN cancels' :
          (/\ cancels'[run_id].pc = "returned"
           /\ (run_id \in DOMAIN cancels => cancels[run_id].pc # "returned"))
            => IF cancels'[run_id].ret
               THEN ~runs[run_id].completed /\ runs'[run_id].completed
               ELSE /\ runs[run_id].completed
                    /\ runs'[run_id].result = runs[run_id].result
                    /\ runs'[run_id].error = runs[run_id].error]_vars

\* ------------------------------------------------ two runs of one session
\* the runs of two messages posted to the same session one after the other
TwoRuns == {1, 2}

\* Two messages were posted to a session loaded at start-up: both runs exist
\* and both worker threads have been started; the threads run concurrently.
InitTwoRuns ==
    /\ settings \in {[provider \in Providers |-> ok] : ok \in BOOLEAN}
    /\ sessions = {"s1"}
    /\ objs = ("s1" :> from_persist_dict(StoredRecord(<<>>)))
    /\ disk = ("s1" :> StoredRecord(<<>>))
    /\ runs = (1 :> NewRun(1, "s1", <<"h", "i">>)) @@ (2 :> NewRun(2, "s1", <<"y", "o">>))
    /\ appended = [run_id \in TwoRuns |-> <<>>]
    /\ threads = [run_id \in TwoRuns |->
                     [pc |-> "validate", exc |-> None, result |-> None,
                      progress |-> 0, final |-> FALSE,
                      provider |-> None, rlm |-> None, data |-> None]]
    /\ active_threads = TwoRuns
    /\ cancels = <<>>
    /\ streams = <<>>
    /\ handler = NoRequest

NextTwoRuns == \E run_id \in TwoRuns : Worker(run_id)

SpecTwoRuns == InitTwoRuns /\ [][NextTwoRuns]_vars

\* C37: in the history of a session, the assistant message of a run is
\* immediately preceded by the user message of that run, and a run whose
\* worker has ended without an exception has its assistant message there.
C37_UserThenAssistant ==
    \A run_id \in DOMAIN runs :
        LET messages == objs[runs[run_id].session_id].messages IN
        /\ \A i \in 1..Len(messages) :
              (messages[i].role = "assistant" /\ messages[i].run_id = run_id)
                => /\ i > 1
                   /\ messages[i - 1].role = "user"
                   /\ messages[i - 1].content = runs[run_id].message
        /\ (threads[run_id].pc = "finished" /\ threads[run_id].exc = None)
              => \E i \in 1..Len(messages) :
                    messages[i].role = "assistant" /\ messages[i].run_id = run_id

\* ------------------------------------------------- requests of another session
\* ChatSession.get_progress_events: self.progress_events.get(run_id, [])
get_progress_events(session, run_id) ==
    IF run_id \in DOMAIN session.progress_events
    THEN session.progress_events[run_id]
    ELSE <<>>

\* GET /chat/{session_id}/progress/{run_id} -> get_run_progress; the response's
\* events are in the data of the handler
GetRunProgress(session_id, run_id) ==
    /\ session_id \in sessions
    /\ LET archived == get_progress_events(objs[session_id], run_id)
           events == IF archived = <<>> /\ run_id \in DOMAIN runs
                     THEN get_events(runs[run_id], 0)
                     ELSE archived
       IN  handler' = [op |-> "get_run_progress", session_id |-> session_id,
                       pc |-> "returned", ret |-> TRUE, data |-> events]
    /\ UNCHANGED <<settings, sessions, objs, disk, runs, appended, threads,
                   active_threads, cancels, streams>>

\* the owner of the run and another session of the store
TwoSessions == {"s1", "s2"}

\* Two sessions were loaded at start-up. Session "s1" runs one message;
\* requests for the run's stream, its progress and its cancellation arrive
\* with either session_id in the URL.
InitOwner ==
    /\ settings = [provider \in Providers |-> TRUE]
    /\ sessions = TwoSessions
    /\ objs = [session_id \in TwoSessions |->
                  from_persist_dict([StoredRecord(<<>>) EXCEPT !.session_id = session_id])]
    /\ disk = [session_id \in TwoSessions |->
                  [StoredRecord(<<>>) EXCEPT !.session_id = session_id]]
    /\ runs = <<>>
    /\ appended = <<>>
    /\ threads = <<>>
    /\ active_threads = {}
    /\ cancels = <<>>
    /\ streams = <<>>
    /\ handler = NoRequest

NextOwner ==
    \/ \E message \in Messages : SubmitMessage("s1", message)
    \/ \E run_id \in RunIds : Worker(run_id)
    \/ \E session_id \in TwoSessions, run_id \in RunIds :
          StreamOpen("a", session_id, run_id)
    \/ Stream("a")
    \/ \E session_id \in TwoSessions, run_id \in RunIds :
          GetRunProgress(session_id, run_id)
    \/ \E session_id \in TwoSessions, run_id \in RunIds : CancelCheck(session_id, run_id)
    \/ \E run_id \in RunIds : CancelComplete(run_id)

SpecOwner == InitOwner /\ [][NextOwner]_vars

\* C38: a request that names an existing session other than the run's own
\* opens no stream on the run, gets none of the run's events from
\* get_run_progress, and its cancel_run returns false without completing
\* the run.
C38_RunOnlyThroughOwner ==
    /\ \A s \in DOMAIN streams :
          streams[s].session_id = runs[streams[s].run_id].session_id
    /\ handler.op = "get_run_progress"
          => \A i \in 1..Len(handler.data) :
                handler.data[i].run_id \in DOMAIN runs
                    => runs[handler.data[i].run_id].session_id = handler.session_id
    /\ \A run_id \in DOMAIN cancels :
          cancels[run_id].session_id # runs[run_id].session_id
              => cancels[run_id].pc = "returned" /\ ~cancels[run_id].ret

\* C39: from a state in which a session is ended, no step changes the
\* session's messages or its archived events, and no step creates a run for
\* the session.
C39_EndedSessionIsFrozen ==
    [][\A session_id \in DOMAIN objs :
          (objs[session_id].status = "ended" /\ session_id \in DOMAIN objs')
            => /\ objs'[session_id].messages = objs[session_id].messages
               /\ objs'[session_id].progress_events = objs[session_id].progress_events
               /\ \A run_id \in DOMAIN runs' :
                     runs'[run_id].session_id = session_id
                         => run_id \in DOMAIN runs]_vars

\* ------------------------------------------------------------- start-up load
\* what the file of a session can hold when a process starts: a record the
\* session's last complete write left, or what an unfinished or a mixed write
\* left
FilesOf(session_id) ==
    {[data EXCEPT !.session_id = session_id] : data \in StoredRecords}
        \cup {EmptyFile, Garbled}

\* A process starts on the SESSIONS_DIR an earlier process left: no, one or
\* two session files, each whole or not; it loads them, serves title updates
\* and deletions, and may be replaced by a new process at any time.
InitLoad ==
    /\ settings = [provider \in Providers |-> TRUE]
    /\ sessions = {}
    /\ objs = <<>>
    /\ \E present \in SUBSET TwoSessions :
          disk \in {d \in [present -> UNION {FilesOf(k) : k \in present}] :
                       \A k \in present : d[k] \in FilesOf(k)}
    /\ runs = <<>>
    /\ appended = <<>>
    /\ threads = <<>>
    /\ active_threads = {}
    /\ cancels = <<>>
    /\ streams = <<>>
    /\ handler = NoRequest

NextLoad ==
    \/ StartUp
    \/ \E session_id \in TwoSessions, title \in Titles :
          UpdateSessionTitle(session_id, title)
    \/ \E session_id \in TwoSessions : DeleteSession(session_id)

SpecLoad == InitLoad /\ [][NextLoad]_vars

\* C40: when the start-up load has returned, the sessions in memory are those
\* of the files that parse, each as from_persist_dict builds it from its
\* record, and the warnings name the files that do not parse.
C40_LoadSkipsUnparsable ==
    handler.op = "startup"
        => /\ sessions = {f \in DOMAIN disk : Parsable(disk[f])}
           /\ \A session_id \in sessions :
                 objs[session_id] = from_persist_dict(disk[session_id])
           /\ handler.data = {f \in DOMAIN disk : ~Parsable(disk[f])}

\* a start-up found one file that parses and one that does not
C40_Witness ==
    /\ handler.op = "startup"
    /\ DOMAIN disk = TwoSessions
    /\ Cardinality(sessions) = 1
    /\ handler.data # {}
    /\ \E session_id \in sessions : objs[session_id].messages # <<>>

====
